---- MODULE Spec2Model ----
(***************************************************************************)
(* Model of io_mesh_urho/export_urho.py: the UrhoExport pipeline that      *)
(* turns the intermediate scene description (tData) into Urho vertex and   *)
(* index buffers, geometries, bone maps and animations.                    *)
(*                                                                         *)
(* Numbers.  Floats are modelled on an integer grid: one grid step is the  *)
(* comparison tolerance EPSILON and the float 1.0 is Unit grid steps.      *)
(* Blend weights are exact rationals <<n, d>> in lowest terms.  Indices    *)
(* into Python lists keep their 0-based values; TLA+ sequences are         *)
(* 1-based, so list element i is seq[i + 1].                               *)
(* The 16-bit index limit 65535 and MAX_SKIN_MATRICES = 64 are scaled down *)
(* (MAX_INDEX16, MAX_SKIN_MATRICES) so that TLC can build buffers and      *)
(* skeletons that exceed them; the comparisons against them are those of   *)
(* the source.                                                             *)
(*                                                                         *)
(* The file writers (UrhoWriteModel, UrhoWriteAnimation, UrhoWriteMaterial,*)
(* UrhoWriteMaterialsList) are modelled as one call of one writer on one   *)
(* target file, a step per statement that touches the in-memory content or *)
(* the file; the content of a file is the sequence of values written.      *)
(***************************************************************************)
EXTENDS Integers, Sequences, FiniteSets, TLC

VARIABLES
    tData,            \* input scene description of this UrhoExport call
    uExportOptions,   \* [splitSubMeshes, useStrictLods]
    pc,               \* position inside UrhoExport
    geomIndex,        \* 0-based index of the next geometry of tData.geometriesList
    useOneBuffer,     \* buffer policy decided before the geometry loop
    bones,            \* uModel.bones
    vertexBuffers,    \* uModel.vertexBuffers
    indexBuffers,     \* uModel.indexBuffers
    geometries,       \* uModel.geometries
    boundingBox,      \* uModel.boundingBox
    uVertex,          \* local uVertex: survives a failed UrhoVertex() call
    uVerticesMap,     \* local uVerticesMap: hash -> list of vertex indices
    modelIndexMap,    \* local modelIndexMap: source index -> set of <<buffer, index>>
    errorsIndices,    \* errorsDict["incompatible element mask"]
    errorsMorphIndices, \* errorsDict["incompatible morph element mask"]
    errorsDict,       \* the two sets of errorsDict as the caller passed them
    morphs,           \* uModel.morphs; their buffers list morph vertex objects
    morphVertices,    \* the UrhoVertex objects built for morphs, by creation
    uMorphVertex,     \* local uMorphVertex: the last object built (0: unbound)
    animations,       \* uExportData.animations
    fw,               \* one call of a file writer: arguments, position, content in memory
    disk              \* the target file of the writer: [exists, content]

exportVars == <<tData, uExportOptions, pc, geomIndex, useOneBuffer, bones,
                vertexBuffers, indexBuffers, geometries, boundingBox, uVertex,
                uVerticesMap, modelIndexMap, errorsIndices, errorsMorphIndices,
                errorsDict, morphs, morphVertices, uMorphVertex, animations>>

vars == <<exportVars, fw, disk>>

\* What the morph loop writes
morphVars == <<errorsMorphIndices, errorsDict, morphs, morphVertices, uMorphVertex>>

(***************************************************************************)
(* Bounds of the explored inputs                                           *)
(***************************************************************************)
\* length of tData.verticesList (mesh inputs)
NumVertices == 3
\* length of tData.verticesList (skinned inputs)
NumSkinVertices == 2
\* length of tData.verticesList (inputs with morphs)
NumMorphVertices == 2
\* source blend weights are 0..MaxWeight
MaxWeight == 2
\* longest list of source (bone, weight) tuples of one vertex
MaxInfluences == 6
\* tracks per source animation
MaxTracks == 2
\* frames per source track
MaxFrames == 2
\* frame times are 0..MaxTime
MaxTime == 2
\* grid steps of the float 1.0
Unit == 4

(***************************************************************************)
(* Urho enums                                                              *)
(***************************************************************************)
ELEMENT_POSITION == 1
ELEMENT_NORMAL == 2
ELEMENT_COLOR == 4
ELEMENT_UV1 == 8
ELEMENT_UV2 == 16
ELEMENT_TANGENT == 128
ELEMENT_BWEIGHTS == 256
ELEMENT_BINDICES == 512
ELEMENT_BLEND == 768
TRACK_POSITION == 1
TRACK_ROTATION == 2
TRACK_SCALE == 4
TRIANGLE_LIST == 0
BONE_BOUNDING_SPHERE == 1
BONE_BOUNDING_BOX == 2
\* Max number of bones supported by HW skinning (64 in the source, scaled)
MAX_SKIN_MATRICES == 5
\* Largest index count that still gets 16-bit indices (65535 in the source, scaled)
MAX_INDEX16 == 4
\* Number of (bone, weight) tuples stored per vertex
MAX_WEIGHTS == 4
\* Max difference between floats to be equal (1e-6 in the source = one grid step)
EPSILON == 1
\* float("+inf"): above every finite error of the grid
INFINITY == 1000000
\* cos(30 / 180 * pi), in thousandths
COS30 == 866

\* Python None for vectors, tuples and lists
None == << >>
\* Python None for an integer (elementMask, blenderIndex, track mask)
NoneInt == -1

(***************************************************************************)
(* Integer helpers: Python's &, |, ^ on non-negative ints, abs, min, max   *)
(***************************************************************************)
RECURSIVE BitAnd(_, _)
BitAnd(a, b) ==
    IF a = 0 \/ b = 0 THEN 0
    ELSE (IF a % 2 = 1 /\ b % 2 = 1 THEN 1 ELSE 0) + 2 * BitAnd(a \div 2, b \div 2)

RECURSIVE BitOr(_, _)
BitOr(a, b) ==
    IF a = 0 THEN b
    ELSE IF b = 0 THEN a
    ELSE (IF a % 2 = 1 \/ b % 2 = 1 THEN 1 ELSE 0) + 2 * BitOr(a \div 2, b \div 2)

RECURSIVE BitXor(_, _)
BitXor(a, b) ==
    IF a = 0 THEN b
    ELSE IF b = 0 THEN a
    ELSE (IF a % 2 # b % 2 THEN 1 ELSE 0) + 2 * BitXor(a \div 2, b \div 2)

Abs(x) == IF x < 0 THEN -x ELSE x
Min(a, b) == IF a < b THEN a ELSE b
Max(a, b) == IF a > b THEN a ELSE b

RECURSIVE GCD(_, _)
GCD(a, b) == IF b = 0 THEN a ELSE GCD(b, a % b)

(***************************************************************************)
(* Exact rationals <<n, d>>, d > 0, lowest terms: float weights            *)
(***************************************************************************)
Rat(n, d) == LET g == GCD(Abs(n), d) IN <<n \div g, d \div g>>
RatZero == <<0, 1>>
RatOne == <<1, 1>>
RatAdd(p, q) == Rat(p[1] * q[2] + q[1] * p[2], p[2] * q[2])
\* p / q for q > 0
RatDiv(p, q) == Rat(p[1] * q[2], p[2] * q[1])
RatLess(p, q) == p[1] * q[2] < q[1] * p[2]

RECURSIVE RatSum(_)
RatSum(s) == IF s = << >> THEN RatZero ELSE RatAdd(Head(s), RatSum(Tail(s)))

(***************************************************************************)
(* Float comparison                                                        *)
(***************************************************************************)
\* True if v1 and v2 are both None or their corresponding elements are almost equal
FloatListAlmostEqual(v1, v2) ==
    IF v1 = None THEN v2 = None
    ELSE IF v2 = None THEN FALSE
    ELSE \A k \in 1..Min(Len(v1), Len(v2)) : ~(Abs(v1[k] - v2[k]) > EPSILON)

RECURSIVE SumAbsDiff(_, _, _)
SumAbsDiff(v1, v2, k) ==
    IF k > Min(Len(v1), Len(v2)) THEN 0
    ELSE Abs(v1[k] - v2[k]) + SumAbsDiff(v1, v2, k + 1)

\* Absolute error of two float lists, in grid steps
FloatListEqualError(v1, v2) ==
    IF v1 = None THEN (IF v2 = None THEN 0 ELSE INFINITY)
    ELSE IF v2 = None THEN INFINITY
    ELSE SumAbsDiff(v1, v2, 1)

RECURSIVE Dot(_, _, _)
Dot(v1, v2, k) ==
    IF k > Min(Len(v1), Len(v2)) THEN 0
    ELSE v1[k] * v2[k] + Dot(v1, v2, k + 1)

\* Dot product in units of 1/(Unit*Unit): 1 is Unit*Unit, -1 is -Unit*Unit
VectorDotProduct(v1, v2) ==
    IF v1 = None THEN (IF v2 = None THEN Unit * Unit ELSE -(Unit * Unit))
    ELSE IF v2 = None THEN -(Unit * Unit)
    ELSE Dot(v1, v2, 1)

(***************************************************************************)
(* BoundingBox                                                             *)
(***************************************************************************)
EmptyBox == [min |-> None, max |-> None]

BoundingBoxMerge(box, point) ==
    IF box.min = None THEN [min |-> point, max |-> point]
    ELSE [min |-> [k \in 1..Len(box.min) |-> Min(box.min[k], point[k])],
          max |-> [k \in 1..Len(box.max) |-> Max(box.max[k], point[k])]]

(***************************************************************************)
(* UrhoVertex                                                              *)
(***************************************************************************)
\* An insertion that sorts by increasing weight (reverse = True forgotten)
InsertByWeightAscending(s, t) ==
    LET c == Cardinality({j \in 1..Len(s) : ~RatLess(t[2], s[j][2])})
    IN  SubSeq(s, 1, c) \o <<t>> \o SubSeq(s, c + 1, Len(s))

\* sorted(weights, key = operator.itemgetter(1), reverse = True): stable
InsertByWeight(s, t) ==
    LET c == Cardinality({j \in 1..Len(s) : ~RatLess(s[j][2], t[2])})
    IN  SubSeq(s, 1, c) \o <<t>> \o SubSeq(s, c + 1, Len(s))

RECURSIVE SortByWeight(_)
SortByWeight(s) ==
    IF s = << >> THEN << >>
    ELSE InsertByWeight(SortByWeight(SubSeq(s, 1, Len(s) - 1)), s[Len(s)])

\* A total over every source tuple instead of the kept ones
TotalWeightOfAll(sortedList) ==
    RatSum([k \in 1..Len(sortedList) |-> sortedList[k][2]])

\* Sum of the weights of the first MAX_WEIGHTS tuples
TotalWeight(sortedList) ==
    RatSum([k \in 1..Min(MAX_WEIGHTS, Len(sortedList)) |-> sortedList[k][2]])

\* self.weights: [] without source weights, else MAX_WEIGHTS normalized tuples.
\* tWeights is None or <<list of <<bone index, weight>> >>.
VertexWeights(tWeights) ==
    IF tWeights = None THEN << >>
    ELSE LET sortedList == SortByWeight(tWeights[1])
             totalWeight == TotalWeight(sortedList)
         IN  [i \in 1..MAX_WEIGHTS |->
                 IF totalWeight # RatZero /\ i <= Len(sortedList)
                 THEN <<sortedList[i][1], RatDiv(sortedList[i][2], totalWeight)>>
                 ELSE <<0, RatZero>>]

\* The element mask of the fields present in a source vertex
VertexMask(tVertex) ==
    (IF tVertex.pos # None THEN ELEMENT_POSITION ELSE 0)
    + (IF tVertex.normal # None THEN ELEMENT_NORMAL ELSE 0)
    + (IF tVertex.color # None THEN ELEMENT_COLOR ELSE 0)
    + (IF tVertex.uv # None THEN ELEMENT_UV1 ELSE 0)
    + (IF tVertex.uv2 # None THEN ELEMENT_UV2 ELSE 0)
    + (IF tVertex.tangent # None THEN ELEMENT_TANGENT ELSE 0)
    + (IF tVertex.weights # None THEN ELEMENT_BLEND ELSE 0)

\* The fields UrhoVertex.__init__ stores on self
VertexFields(tVertex) ==
    [index |-> NoneInt,
     pos |-> tVertex.pos,
     normal |-> tVertex.normal,
     color |-> tVertex.color,
     uv |-> tVertex.uv,
     uv2 |-> tVertex.uv2,
     tangent |-> tVertex.tangent,
     weights |-> VertexWeights(tVertex.weights)]

\* A constructor that raises MaskError without narrowing the buffer mask
UrhoVertexKeepMask(tVertex, elementMask) ==
    LET mask == VertexMask(tVertex)
    IN  [vertex |-> VertexFields(tVertex),
         elementMask |-> IF elementMask = NoneInt THEN mask ELSE elementMask,
         raised |-> elementMask # NoneInt /\ elementMask # mask]

\* UrhoVertex(tVertex, uVertexBuffer): the vertex, the buffer mask after the
\* call and whether MaskError was raised (then no vertex is returned)
UrhoVertex(tVertex, elementMask) ==
    LET mask == VertexMask(tVertex)
    IN  [vertex |-> VertexFields(tVertex),
         elementMask |-> IF elementMask = NoneInt THEN mask
                         ELSE IF elementMask # mask THEN BitAnd(elementMask, mask)
                         ELSE elementMask,
         raised |-> elementMask # NoneInt /\ elementMask # mask]

\* compare position, normal, color, UV, UV2 with another vertex
AlmostEqual(self, other) ==
    /\ FloatListAlmostEqual(self.pos, other.pos)
    /\ FloatListAlmostEqual(self.normal, other.normal)
    /\ self.color = other.color
    /\ FloatListAlmostEqual(self.uv, other.uv)
    /\ FloatListAlmostEqual(self.uv2, other.uv2)

\* compare position, normal, UV with another vertex, returns the error
\* (scaled by Unit * Unit), INFINITY when the vertices cannot be matched
LodError(self, other) ==
    IF ~FloatListAlmostEqual(self.pos, other.pos) THEN INFINITY
    ELSE LET ncos == VectorDotProduct(self.normal, other.normal)
             uvError == FloatListEqualError(self.uv, other.uv)
         IN  IF ncos * 1000 < COS30 * Unit * Unit THEN INFINITY
             ELSE IF uvError = INFINITY THEN INFINITY
             ELSE uvError * Unit + Unit * Unit - ncos

\* hash() of a float on the grid: CPython hashes an integral float to its integer
FloatHash(x) == x

\* not unique id of this vertex based on its position
VertexHash(self) ==
    IF self.pos # None
    THEN BitXor(BitXor(FloatHash(self.pos[1]), FloatHash(self.pos[2])), FloatHash(self.pos[3]))
    ELSE 0

UrhoVertexBuffer ==
    [elementMask |-> NoneInt, morphMinIndex |-> NoneInt, morphMaxIndex |-> NoneInt,
     vertices |-> << >>]

UrhoIndexBuffer == [indexSize |-> 0, indexes |-> << >>]

UrhoLodLevel ==
    [distance |-> 0, primitiveType |-> 0, vertexBuffer |-> 0, indexBuffer |-> 0,
     startIndex |-> 0, countIndex |-> 0]

ZeroVector == <<RatZero, RatZero, RatZero>>

UrhoGeometry == [boneMap |-> << >>, lodLevels |-> << >>, center |-> ZeroVector]

(***************************************************************************)
(* UrhoExport: adding the vertices of one LOD to the vertex buffer         *)
(***************************************************************************)
\* uVerticesMap[uVertexHash], or a new list on KeyError
MapList(map, h) == IF h \in DOMAIN map THEN map[h] ELSE << >>

\* Strict search: the first index of the list whose vertex is AlmostEqual
RECURSIVE FindAlmostEqual(_, _, _, _)
FindAlmostEqual(vertices, list, v, k) ==
    IF k > Len(list) THEN NoneInt
    ELSE IF AlmostEqual(vertices[list[k] + 1], v) THEN list[k]
    ELSE FindAlmostEqual(vertices, list, v, k + 1)

\* Permissive search: the first index of the list with the least finite LodError
RECURSIVE FindBestLod(_, _, _, _, _, _)
FindBestLod(vertices, list, v, k, bestLodError, uVertexIndex) ==
    IF k > Len(list) THEN uVertexIndex
    ELSE LET lodError == LodError(vertices[list[k] + 1], v)
         IN  IF lodError < bestLodError
             THEN FindBestLod(vertices, list, v, k + 1, lodError, list[k])
             ELSE FindBestLod(vertices, list, v, k + 1, bestLodError, uVertexIndex)

\* A permissive search that returns the position after the best one
LodMatchOffByOne(vertices, list, v) ==
    LET best == FindBestLod(vertices, list, v, 1, INFINITY, NoneInt)
    IN  IF best = NoneInt THEN NoneInt ELSE best + 1

\* Lines 985-996: the permissive search of a LOD above 0 without useStrictLods
LodMatch(vertices, list, v) == FindBestLod(vertices, list, v, 1, INFINITY, NoneInt)

\* The steps of one iteration of "for tVertexIndex in tLodLevel.indexSet".
\* ls = [vb, uVertex, uVerticesMap, indexMap, errorsIndices, boundingBox,
\*       caught, raised]; caught: the handler of MaskError has run

\* errorsIndices after "except MaskError"; r is the outcome of UrhoVertex
MaskErrorIndices(ls, tVertex, r) ==
    IF r.raised /\ tVertex.blenderIndex # NoneInt
    THEN ls.errorsIndices \cup {tVertex.blenderIndex}
    ELSE ls.errorsIndices

\* A vertex that was not found is appended to the buffer and to its hash
\* list; then the index map and the model bounding box are updated
StoreVertex(ls, tVertexIndex, uVertexHash, list, found) ==
    LET uVertexIndex == IF found = NoneInt THEN Len(ls.vb.vertices) ELSE found
    IN  [ls EXCEPT
            !.vb.vertices = IF found = NoneInt THEN Append(@, ls.uVertex) ELSE @,
            !.uVerticesMap =
                (uVertexHash :> (IF found = NoneInt THEN Append(list, uVertexIndex)
                                 ELSE list)) @@ @,
            !.indexMap = IF tVertexIndex \in DOMAIN @ THEN @
                         ELSE (tVertexIndex :> uVertexIndex) @@ @,
            !.boundingBox = IF BitAnd(ls.vb.elementMask, ELEMENT_POSITION) # 0
                            THEN BoundingBoxMerge(@, ls.uVertex.pos)
                            ELSE @]

\* The strict search, or the permissive one of a LOD above 0
SearchVertex(ls, tVertexIndex, uVertexHash, list, strict) ==
    StoreVertex(ls, tVertexIndex, uVertexHash, list,
                IF strict
                THEN FindAlmostEqual(ls.vb.vertices, list, ls.uVertex, 1)
                ELSE LodMatch(ls.vb.vertices, list, ls.uVertex))

\* The list of vertex indices with the hash of uVertex
LookupVertex(ls, tVertexIndex, uVertexHash, strict) ==
    SearchVertex(ls, tVertexIndex, uVertexHash, MapList(ls.uVerticesMap, uVertexHash),
                 strict)

\* "try: uVertex = UrhoVertex(...) except MaskError"; r is the outcome of the
\* constructor.  On MaskError the assignment to uVertex does not happen, and
\* the handler formats the exception with "{:s}": str.format returns str(e)
\* up to Python 3.3 and raises TypeError from Python 3.4 on (formatRaises),
\* which leaves UrhoExport.
CreateVertex(ls, tVertex, tVertexIndex, r, strict, formatRaises) ==
    IF r.raised /\ formatRaises
    THEN [ls EXCEPT !.vb.elementMask = r.elementMask,
                    !.errorsIndices = MaskErrorIndices(ls, tVertex, r),
                    !.caught = TRUE,
                    !.raised = "TypeError"]
    ELSE LookupVertex([ls EXCEPT !.vb.elementMask = r.elementMask,
                                 !.uVertex = IF r.raised THEN @ ELSE r.vertex,
                                 !.errorsIndices = MaskErrorIndices(ls, tVertex, r),
                                 !.caught = @ \/ r.raised],
                      tVertexIndex,
                      VertexHash(IF r.raised THEN ls.uVertex ELSE r.vertex),
                      strict)

\* One iteration of "for tVertexIndex in tLodLevel.indexSet"
AddVertex(ls, verticesList, tVertexIndex, strict, formatRaises) ==
    CreateVertex(ls, verticesList[tVertexIndex + 1], tVertexIndex,
                 UrhoVertex(verticesList[tVertexIndex + 1], ls.vb.elementMask),
                 strict, formatRaises)

RECURSIVE AddVertices(_, _, _, _, _, _)
AddVertices(ls, verticesList, indexSet, k, strict, formatRaises) ==
    IF k > Len(indexSet) \/ ls.raised # "no" THEN ls
    ELSE AddVertices(AddVertex(ls, verticesList, indexSet[k], strict, formatRaises),
                     verticesList, indexSet, k + 1, strict, formatRaises)

(***************************************************************************)
(* UrhoExport: remapping bone indices to the geometry's bone map           *)
(***************************************************************************)
\* list.index(x): 0-based position of the first x, NoneInt on ValueError
ListIndex(list, x) ==
    IF \E k \in 1..Len(list) : list[k] = x
    THEN (CHOOSE k \in 1..Len(list) : list[k] = x /\ \A j \in 1..(k - 1) : list[j] # x) - 1
    ELSE NoneInt

\* "for i, (boneIndex, weight) in enumerate(vertex.weights)"
RECURSIVE RemapWeights(_, _, _)
RemapWeights(weights, k, boneMap) ==
    IF k > Len(weights) THEN [weights |-> weights, boneMap |-> boneMap]
    ELSE LET boneIndex == weights[k][1]
             weight == weights[k][2]
             present == ListIndex(boneMap, boneIndex)
         IN  IF present # NoneInt
             THEN RemapWeights([weights EXCEPT ![k] = <<present, weight>>], k + 1, boneMap)
             ELSE IF Len(boneMap) < MAX_SKIN_MATRICES
             THEN RemapWeights([weights EXCEPT ![k] = <<Len(boneMap), weight>>], k + 1,
                               Append(boneMap, boneIndex))
             ELSE RemapWeights([weights EXCEPT ![k] = <<0, RatZero>>], k + 1, boneMap)

\* "for vertex in vertexBuffer.vertices"
RECURSIVE RemapVertices(_, _, _)
RemapVertices(vertices, j, boneMap) ==
    IF j > Len(vertices) THEN [vertices |-> vertices, boneMap |-> boneMap]
    ELSE LET r == RemapWeights(vertices[j].weights, 1, boneMap)
         IN  RemapVertices([vertices EXCEPT ![j].weights = r.weights], j + 1, r.boneMap)

(***************************************************************************)
(* UrhoExport: one LOD level of one geometry                               *)
(***************************************************************************)
\* The triangle corners in the order "for triangle ... for tVertexIndex" visits them
RECURSIVE Corners(_)
Corners(triangleList) ==
    IF triangleList = << >> THEN << >>
    ELSE Head(triangleList) \o Corners(Tail(triangleList))

RECURSIVE VectorSum(_)
VectorSum(points) ==
    IF points = << >> THEN <<0, 0, 0>>
    ELSE LET rest == VectorSum(Tail(points))
         IN  [k \in 1..3 |-> Head(points)[k] + rest[k]]

\* modelIndexMap after "for oldIndex, newIndex in indexMap.items()"
AddToModelIndexMap(map, indexMap, vertexBuffer) ==
    [oldIndex \in DOMAIN map \cup DOMAIN indexMap |->
        (IF oldIndex \in DOMAIN map THEN map[oldIndex] ELSE {})
        \cup (IF oldIndex \in DOMAIN indexMap
              THEN {<<vertexBuffer, indexMap[oldIndex]>>} ELSE {})]

\* The steps of the body of "for i, tLodLevel in enumerate(tGeometry.lodLevels)".
\* st = [vertexBuffers, indexBuffers, uGeometry, uVertex, uVerticesMap,
\*       modelIndexMap, errorsIndices, boundingBox, caught, raised]

\* The new LOD level and, for the first LOD when needed, new buffers
OpenLod(st, tLodLevel, i, oneBuffer) ==
    LET newVertexBuffer == Len(st.vertexBuffers) = 0 \/ (i = 0 /\ ~oneBuffer)
        newIndexBuffer == Len(st.indexBuffers) = 0 \/ (i = 0 /\ ~oneBuffer)
    IN  [st EXCEPT
            !.vertexBuffers = IF newVertexBuffer THEN Append(@, UrhoVertexBuffer) ELSE @,
            !.indexBuffers = IF newIndexBuffer THEN Append(@, UrhoIndexBuffer) ELSE @,
            !.uVerticesMap = IF newVertexBuffer THEN << >> ELSE @,
            !.uGeometry.lodLevels = Append(@,
                [distance |-> tLodLevel.distance,
                 primitiveType |-> TRIANGLE_LIST,
                 vertexBuffer |-> Len(st.vertexBuffers) - (IF newVertexBuffer THEN 0 ELSE 1),
                 indexBuffer |-> Len(st.indexBuffers) - (IF newIndexBuffer THEN 0 ELSE 1),
                 startIndex |-> IF newIndexBuffer THEN 0
                                ELSE Len(st.indexBuffers[Len(st.indexBuffers)].indexes),
                 countIndex |-> Len(tLodLevel.triangleList) * 3])]

\* The vertex loop of the LOD on the current (last) vertex buffer
LodVertices(st, tLodLevel, i, verticesList, options, formatRaises) ==
    AddVertices([vb |-> st.vertexBuffers[Len(st.vertexBuffers)],
                 uVertex |-> st.uVertex,
                 uVerticesMap |-> st.uVerticesMap,
                 indexMap |-> << >>,
                 errorsIndices |-> st.errorsIndices,
                 boundingBox |-> st.boundingBox,
                 caught |-> st.caught,
                 raised |-> "no"],
                verticesList, tLodLevel.indexSet, 1,
                i = 0 \/ options.useStrictLods, formatRaises)

\* What the vertex loop has changed when it ends or is left by an exception
AfterVertices(st, ls) ==
    [st EXCEPT !.vertexBuffers[Len(st.vertexBuffers)] = ls.vb,
               !.uVertex = ls.uVertex,
               !.uVerticesMap = ls.uVerticesMap,
               !.errorsIndices = ls.errorsIndices,
               !.boundingBox = ls.boundingBox,
               !.caught = ls.caught,
               !.raised = ls.raised]

\* A center that counts every vertex once, however many indices refer to it
GeometryCenterOfVertices(vertices, indexes) ==
    LET used == {indexes[k] : k \in 1..Len(indexes)}
        total == VectorSum([k \in 1..Len(vertices) |->
                               IF k - 1 \in used THEN vertices[k].pos ELSE <<0, 0, 0>>])
    IN  [k \in 1..3 |-> Rat(total[k], Cardinality(used))]

\* Lines 1052-1064: "center += ...pos" for every index added, then
\* "center / centerCount"
GeometryCenter(vertices, indexes) ==
    LET center == VectorSum([k \in 1..Len(indexes) |-> vertices[indexes[k] + 1].pos])
    IN  [k \in 1..3 |-> Rat(center[k], Len(indexes))]

\* The global index map, the indices of the LOD and the geometry center
LodIndexes(st, tLodLevel, i, indexMap) ==
    LET vb == st.vertexBuffers[Len(st.vertexBuffers)]
        corners == Corners(tLodLevel.triangleList)
        newIndexes == [k \in 1..Len(corners) |-> indexMap[corners[k]]]
        centerCount == IF i = 0 /\ BitAnd(vb.elementMask, ELEMENT_POSITION) # 0
                       THEN Len(corners) ELSE 0
    IN  [st EXCEPT
            !.modelIndexMap = AddToModelIndexMap(@, indexMap, Len(st.vertexBuffers) - 1),
            !.indexBuffers[Len(st.indexBuffers)].indexes = @ \o newIndexes,
            !.uGeometry.center = IF i = 0 /\ centerCount # 0
                                 THEN GeometryCenter(vb.vertices, newIndexes)
                                 ELSE @]

\* The vertices and the bone map after the bone indices have been remapped
StoreRemap(st, remapped) ==
    [st EXCEPT !.vertexBuffers[Len(st.vertexBuffers)].vertices = remapped.vertices,
               !.uGeometry.boneMap = remapped.boneMap]

\* Global bone indices become indices into the geometry's bone map when the
\* skeleton is over the limit and the buffer has blend weights and indices
RemapLod(st, boneCount) ==
    IF boneCount > MAX_SKIN_MATRICES
       /\ BitAnd(st.vertexBuffers[Len(st.vertexBuffers)].elementMask, ELEMENT_BLEND)
              = ELEMENT_BLEND
    THEN StoreRemap(st, RemapVertices(st.vertexBuffers[Len(st.vertexBuffers)].vertices,
                                      1, st.uGeometry.boneMap))
    ELSE st

\* After the vertex loop: an exception leaves the LOD loop with no indices
\* added and nothing remapped
IndexLod(st, tLodLevel, i, ls, boneCount) ==
    IF ls.raised # "no" THEN AfterVertices(st, ls)
    ELSE RemapLod(LodIndexes(AfterVertices(st, ls), tLodLevel, i, ls.indexMap), boneCount)

\* The LOD on the buffers OpenLod has prepared
FillLod(st, tLodLevel, i, verticesList, options, boneCount, formatRaises) ==
    IndexLod(st, tLodLevel, i,
             LodVertices(st, tLodLevel, i, verticesList, options, formatRaises),
             boneCount)

\* The body of "for i, tLodLevel in enumerate(tGeometry.lodLevels)"
ProcessLod(st, tLodLevel, i, verticesList, options, oneBuffer, boneCount, formatRaises) ==
    FillLod(OpenLod(st, tLodLevel, i, oneBuffer), tLodLevel, i, verticesList, options,
            boneCount, formatRaises)

RECURSIVE ProcessLods(_, _, _, _, _, _, _, _)
ProcessLods(st, lodLevels, i, verticesList, options, oneBuffer, boneCount, formatRaises) ==
    IF i >= Len(lodLevels) \/ st.raised # "no" THEN st
    ELSE ProcessLods(ProcessLod(st, lodLevels[i + 1], i, verticesList, options,
                                oneBuffer, boneCount, formatRaises),
                     lodLevels, i + 1, verticesList, options, oneBuffer, boneCount,
                     formatRaises)

(***************************************************************************)
(* UrhoExport: animations                                                  *)
(***************************************************************************)
KeyframeMask(tKeyframe) ==
    (IF tKeyframe.position # None THEN TRACK_POSITION ELSE 0)
    + (IF tKeyframe.rotation # None THEN TRACK_ROTATION ELSE 0)
    + (IF tKeyframe.scale # None THEN TRACK_SCALE ELSE 0)

\* UrhoKeyframe(tKeyframe, uTrack).  When the masks differ the constructor
\* reads uTrack.elementMask, which UrhoTrack does not have: AttributeError
\* is raised before the track mask is narrowed and before MaskError.
UrhoKeyframe(tKeyframe, trackMask) ==
    LET mask == KeyframeMask(tKeyframe)
    IN  [keyframe |-> [time |-> tKeyframe.time,
                       position |-> tKeyframe.position,
                       rotation |-> tKeyframe.rotation,
                       scale |-> tKeyframe.scale],
         mask |-> IF trackMask = NoneInt THEN mask ELSE trackMask,
         raised |-> IF trackMask # NoneInt /\ trackMask # mask
                    THEN "AttributeError" ELSE "no"]

\* "for tFrame in tTrack.frames": the track, or the exception that left the loop
RECURSIVE AddKeyframes(_, _, _)
AddKeyframes(uTrack, frames, k) ==
    IF k > Len(frames) THEN uTrack
    ELSE LET r == UrhoKeyframe(frames[k], uTrack.mask)
         IN  IF r.raised # "no" THEN [uTrack EXCEPT !.raised = r.raised]
             ELSE AddKeyframes([uTrack EXCEPT !.mask = r.mask,
                                              !.keyframes = Append(@, r.keyframe)],
                               frames, k + 1)

\* An insertion that leaves the keyframes in source order (no sort)
InsertAtEnd(s, f) == Append(s, f)

\* keyframes.sort(key = operator.attrgetter('time')): stable, ascending
InsertByTime(s, f) ==
    LET c == Cardinality({j \in 1..Len(s) : s[j].time <= f.time})
    IN  SubSeq(s, 1, c) \o <<f>> \o SubSeq(s, c + 1, Len(s))

RECURSIVE SortByTime(_)
SortByTime(s) ==
    IF s = << >> THEN << >>
    ELSE InsertByTime(SortByTime(SubSeq(s, 1, Len(s) - 1)), s[Len(s)])

\* A test that keeps every track with keyframes, whatever its mask
KeepTrackWithKeyframes(uTrack) == uTrack.keyframes # << >>

\* Line 1209: "if uTrack.keyframes and uTrack.mask"
KeepTrack(uTrack) ==
    uTrack.keyframes # << >> /\ uTrack.mask # NoneInt /\ uTrack.mask # 0

\* "if uTrack.keyframes and uTrack.mask": the track is appended and the
\* animation length updated
AppendTrack(uAnimation, uTrack) ==
    IF KeepTrack(uTrack)
    THEN [uAnimation EXCEPT
             !.tracks = Append(@, uTrack),
             !.length = IF @ = NoneInt \/ @ < uTrack.keyframes[Len(uTrack.keyframes)].time
                        THEN uTrack.keyframes[Len(uTrack.keyframes)].time
                        ELSE @]
    ELSE uAnimation

\* The keyframes are sorted once the keyframe loop has ended normally
SortTrack(uAnimation, built) ==
    IF built.raised # "no" THEN [uAnimation EXCEPT !.raised = built.raised]
    ELSE AppendTrack(uAnimation, [name |-> built.name, mask |-> built.mask,
                                  keyframes |-> SortByTime(built.keyframes)])

\* The body of "for tTrack in tAnimation.tracks"
AddTrack(uAnimation, tTrack) ==
    SortTrack(uAnimation,
              AddKeyframes([name |-> tTrack.name, mask |-> NoneInt,
                            keyframes |-> << >>, raised |-> "no"],
                           tTrack.frames, 1))

\* "for tTrack in tAnimation.tracks": the animation, or the exception
RECURSIVE AddTracks(_, _, _)
AddTracks(uAnimation, tracks, k) ==
    IF k > Len(tracks) \/ uAnimation.raised # "no" THEN uAnimation
    ELSE AddTracks(AddTrack(uAnimation, tracks[k]), tracks, k + 1)

\* "if uAnimation.tracks": the animation is appended
AppendAnimation(out, built) ==
    IF built.raised # "no" THEN [out EXCEPT !.raised = built.raised]
    ELSE IF built.tracks # << >>
    THEN [out EXCEPT !.uAnimations =
             Append(@, [name |-> built.name, length |-> built.length,
                        tracks |-> built.tracks])]
    ELSE out

\* The body of "for tAnimation in tData.animationsList"
AddAnimation(out, tAnimation) ==
    AppendAnimation(out,
                    AddTracks([name |-> tAnimation.name, length |-> NoneInt,
                               tracks |-> << >>, raised |-> "no"],
                              tAnimation.tracks, 1))

\* "for tAnimation in tData.animationsList": the list, or the exception
RECURSIVE AddAnimations(_, _, _)
AddAnimations(out, animationsList, k) ==
    IF k > Len(animationsList) \/ out.raised # "no" THEN out
    ELSE AddAnimations(AddAnimation(out, animationsList[k]), animationsList, k + 1)

(***************************************************************************)
(* UrhoExport: the steps of one call                                       *)
(***************************************************************************)
\* The largest len(tLodLevel.indexSet) over all geometries
MaxLodVertices(geometriesList) ==
    LET counts == UNION {{Len(geometriesList[g].lodLevels[l].indexSet) :
                             l \in 1..Len(geometriesList[g].lodLevels)} :
                         g \in 1..Len(geometriesList)}
    IN  IF counts = {} THEN 0 ELSE CHOOSE c \in counts : \A d \in counts : d <= c

\* A buffer policy that splits only on request, whatever the vertex counts
UseOneBufferUnlessSplit(data, options) == ~options.splitSubMeshes

\* useOneBuffer as decided before the geometry loop.  The source compares
\* with 65535 here as well: MAX_INDEX16 is that limit, scaled.
UseOneBuffer(data, options) ==
    ~(options.splitSubMeshes
      \/ (Len(data.verticesList) > MAX_INDEX16
          /\ MaxLodVertices(data.geometriesList) <= MAX_INDEX16))

\* One UrhoBone of "for boneName, bone in tData.bonesMap.items()"
UrhoBone(bonesMap, uBoneIndex) ==
    [name |-> bonesMap[uBoneIndex + 1].name,
     parentIndex |-> IF bonesMap[uBoneIndex + 1].parentName # NoneInt
                     THEN ListIndex([k \in 1..Len(bonesMap) |-> bonesMap[k].name],
                                    bonesMap[uBoneIndex + 1].parentName)
                     ELSE uBoneIndex,
     derivedPosition |-> bonesMap[uBoneIndex + 1].worldPosition,
     collisionMask |-> 0,
     radius |-> NoneInt,
     boundingBox |-> EmptyBox]

\* Lines 850-901: the model, its bones and the buffer policy
Setup ==
    /\ pc = "start"
    /\ bones' = [k \in 1..Len(tData.bonesMap) |-> UrhoBone(tData.bonesMap, k - 1)]
    /\ useOneBuffer' = UseOneBuffer(tData, uExportOptions)
    /\ pc' = IF tData.geometriesList = << >> THEN "finalize" ELSE "geometries"
    /\ UNCHANGED <<tData, uExportOptions, geomIndex, vertexBuffers, indexBuffers,
                   geometries, boundingBox, uVertex, uVerticesMap, modelIndexMap,
                   errorsIndices, animations, morphVars, fw, disk>>

\* Lines 904-1088: the geometry loop body run on geometry geomIndex.
\* formatRaises: whether the interpreter running the exporter raises TypeError
\* when the MaskError handler formats the exception (Python 3.4 and later).
GeometryResult(formatRaises) ==
    ProcessLods([vertexBuffers |-> vertexBuffers,
                 indexBuffers |-> indexBuffers,
                 uGeometry |-> UrhoGeometry,
                 uVertex |-> uVertex,
                 uVerticesMap |-> uVerticesMap,
                 modelIndexMap |-> modelIndexMap,
                 errorsIndices |-> errorsIndices,
                 boundingBox |-> boundingBox,
                 caught |-> FALSE,
                 raised |-> "no"],
                tData.geometriesList[geomIndex + 1].lodLevels, 0, tData.verticesList,
                uExportOptions, useOneBuffer, Len(bones), formatRaises)

\* Lines 904-1088: one iteration of "for tGeometry in tData.geometriesList".
\* The interpreter makes a difference only when the MaskError handler runs.
ExportGeometry ==
    /\ pc = "geometries"
    /\ \E formatRaises \in BOOLEAN :
         \E st \in {GeometryResult(formatRaises)} :
            /\ formatRaises => st.caught
            /\ vertexBuffers' = st.vertexBuffers
            /\ indexBuffers' = st.indexBuffers
            /\ geometries' = Append(geometries, st.uGeometry)
            /\ uVertex' = st.uVertex
            /\ uVerticesMap' = st.uVerticesMap
            /\ modelIndexMap' = st.modelIndexMap
            /\ errorsIndices' = st.errorsIndices
            /\ boundingBox' = st.boundingBox
            /\ pc' = IF st.raised # "no" THEN "raised"
                     ELSE IF geomIndex + 1 = Len(tData.geometriesList) THEN "finalize"
                     ELSE "geometries"
    /\ geomIndex' = geomIndex + 1
    /\ UNCHANGED <<tData, uExportOptions, useOneBuffer, bones, animations, morphVars,
                   fw, disk>>

\* Lines 1095-1102: the index size of one index buffer
IndexSize(uIndexBuffer) == IF Len(uIndexBuffer.indexes) > MAX_INDEX16 THEN 4 ELSE 2

\* Lines 1090-1102: default bounding box, index sizes
Finalize ==
    /\ pc = "finalize"
    /\ boundingBox' = IF tData.geometriesList # << >> /\ boundingBox.min = None
                      THEN [min |-> <<0, 0, 0>>, max |-> <<0, 0, 0>>]
                      ELSE boundingBox
    /\ indexBuffers' = [b \in 1..Len(indexBuffers) |->
                           [indexBuffers[b] EXCEPT !.indexSize = IndexSize(indexBuffers[b])]]
    /\ pc' = "bones"
    /\ UNCHANGED <<tData, uExportOptions, geomIndex, useOneBuffer, bones, vertexBuffers,
                   geometries, uVertex, uVerticesMap, modelIndexMap, errorsIndices,
                   animations, morphVars, fw, disk>>

\* The weight above which a vertex counts for the volume of a bone: 0.33
BONE_WEIGHT_THRESHOLD == <<33, 100>>

\* (bonePos - vertexPos).length; the inputs keep bones and vertices on one
\* axis, so the length is a whole number of grid steps
VectorLength(v) == CHOOSE n \in 0..(Abs(v[1]) + Abs(v[2]) + Abs(v[3])) : n * n = Dot(v, v, 1)

\* uBone.inverseMatrix * vertexPos for the bones of the inputs, whose world
\* transform is a translation to derivedPosition
BoneSpace(uBone, vertexPos) == [k \in 1..3 |-> vertexPos[k] - uBone.derivedPosition[k]]

\* A vertex weighted above the threshold updates the sphere and the box
BoneVolume(uBone, vertexPos, distance) ==
    [uBone EXCEPT
        !.collisionMask = BitOr(IF uBone.radius = NoneInt \/ distance > uBone.radius
                                THEN BitOr(@, BONE_BOUNDING_SPHERE) ELSE @,
                                BONE_BOUNDING_BOX),
        !.radius = IF @ = NoneInt \/ distance > @ THEN distance ELSE @,
        !.boundingBox = BoundingBoxMerge(@, BoneSpace(uBone, vertexPos))]

\* "for boneIndex, weight in uVertex.weights": boneIndex is used as an index
\* of uModel.bones
RECURSIVE WeightsVolumes(_, _, _, _)
WeightsVolumes(uBones, vertexPos, weights, k) ==
    IF k > Len(weights) THEN uBones
    ELSE WeightsVolumes(
             IF RatLess(BONE_WEIGHT_THRESHOLD, weights[k][2])
             THEN [uBones EXCEPT ![weights[k][1] + 1] =
                      BoneVolume(@, vertexPos,
                                 VectorLength([c \in 1..3 |->
                                     uBones[weights[k][1] + 1].derivedPosition[c]
                                     - vertexPos[c]]))]
             ELSE uBones,
             vertexPos, weights, k + 1)

\* "for uVertex in uVertexBuffer.vertices"
RECURSIVE VerticesVolumes(_, _, _)
VerticesVolumes(uBones, vertices, j) ==
    IF j > Len(vertices) THEN uBones
    ELSE VerticesVolumes(WeightsVolumes(uBones, vertices[j].pos, vertices[j].weights, 1),
                         vertices, j + 1)

\* "for uVertexBuffer in uModel.vertexBuffers": buffers without both blend
\* elements are skipped
RECURSIVE BuffersVolumes(_, _, _)
BuffersVolumes(uBones, buffers, b) ==
    IF b > Len(buffers) THEN uBones
    ELSE BuffersVolumes(
             IF BitAnd(buffers[b].elementMask, ELEMENT_BLEND) # ELEMENT_BLEND THEN uBones
             ELSE VerticesVolumes(uBones, buffers[b].vertices, 1),
             buffers, b + 1)

\* Lines 1104-1130: bounding sphere and box of the bones
UpdateBones ==
    /\ pc = "bones"
    /\ bones' = BuffersVolumes(bones, vertexBuffers, 1)
    /\ pc' = "morphs"
    /\ UNCHANGED <<tData, uExportOptions, geomIndex, useOneBuffer, vertexBuffers,
                   indexBuffers, geometries, boundingBox, uVertex, uVerticesMap,
                   modelIndexMap, errorsIndices, animations, morphVars, fw, disk>>

(***************************************************************************)
(* UrhoExport: morphs                                                      *)
(***************************************************************************)
\* A source morph is [name, vertexMap]; vertexMap lists <<source vertex index,
\* morph vertex>> in the order "tMorph.vertexMap.items()" yields them.
\* A morph vertex object is [index, morph, entry]: its vectors are the Vector
\* objects of the source morph vertex tData.morphsList[morph].vertexMap[entry],
\* which "-=" changes in place.
UrhoVertexMorph == [name |-> NoneInt, vertexBufferMap |-> << >>]

VectorSubtract(a, b) == [k \in 1..Len(a) |-> a[k] - b[k]]

\* r = [vertex, raised]: "self.pos -= other.pos" under the position bit; a
\* missing operand raises TypeError
SubtractPos(r, other, mask) ==
    IF r.raised \/ BitAnd(mask, ELEMENT_POSITION) = 0 THEN r
    ELSE IF r.vertex.pos = None \/ other.pos = None THEN [r EXCEPT !.raised = TRUE]
    ELSE [r EXCEPT !.vertex.pos = VectorSubtract(@, other.pos)]

SubtractNormal(r, other, mask) ==
    IF r.raised \/ BitAnd(mask, ELEMENT_NORMAL) = 0 THEN r
    ELSE IF r.vertex.normal = None \/ other.normal = None THEN [r EXCEPT !.raised = TRUE]
    ELSE [r EXCEPT !.vertex.normal = VectorSubtract(@, other.normal)]

\* "self.tangent -= other.tangent; self.tangent.w = 0"
SubtractTangent(r, other, mask) ==
    IF r.raised \/ BitAnd(mask, ELEMENT_TANGENT) = 0 THEN r
    ELSE IF r.vertex.tangent = None \/ other.tangent = None THEN [r EXCEPT !.raised = TRUE]
    ELSE [r EXCEPT !.vertex.tangent =
             [k \in 1..Len(@) |-> IF k = 4 THEN 0 ELSE @[k] - other.tangent[k]]]

\* UrhoVertex.subtract(other, mask) on the vectors of a source morph vertex
Subtract(self, other, mask) ==
    SubtractTangent(SubtractNormal(SubtractPos([vertex |-> self, raised |-> FALSE],
                                               other, mask), other, mask), other, mask)

\* The index the geometry loop visited last: tVertex is still bound to that
\* source vertex while the morph loop runs
RECURSIVE VisitedIndexes(_, _, _)
VisitedIndexes(geometriesList, g, l) ==
    IF g > Len(geometriesList) THEN << >>
    ELSE IF l > Len(geometriesList[g].lodLevels) THEN VisitedIndexes(geometriesList, g + 1, 1)
    ELSE geometriesList[g].lodLevels[l].indexSet \o VisitedIndexes(geometriesList, g, l + 1)

LastOf(s) == IF s = << >> THEN NoneInt ELSE s[Len(s)]

\* tVertex.blenderIndex as the morph loop reads it (NoneInt also when no
\* source vertex was visited)
LastBlenderIndex(data) ==
    IF LastOf(VisitedIndexes(data.geometriesList, 1, 1)) = NoneInt THEN NoneInt
    ELSE data.verticesList[LastOf(VisitedIndexes(data.geometriesList, 1, 1)) + 1].blenderIndex

\* The steps of the body of "for uVertexBufferIndex, uVertexIndex in vbviSet".
\* ms = [morphsList, morphs, morphVertices, uMorphVertex, vertexBuffers,
\*       errorsMorphIndices, caught, raised]

\* The morph buffer of vertex buffer b of the current morph, added when missing
OpenMorphBuffer(ms, b) ==
    [ms EXCEPT !.morphs[Len(ms.morphs)].vertexBufferMap =
        [x \in DOMAIN @ \cup {b} |-> IF x \in DOMAIN @ THEN @[x] ELSE UrhoVertexBuffer]]

\* "try: uMorphVertex = UrhoVertex(tMorphVertex, uMorphVertexBuffer)" and its
\* handler; r is the outcome of UrhoVertex, e the entry of the vertex map
BuildMorphVertex(ms, e, b, r, tMorphVertex, tVertexBlenderIndex, formatRaises) ==
    IF ~r.raised
    THEN [ms EXCEPT !.morphs[Len(ms.morphs)].vertexBufferMap[b].elementMask = r.elementMask,
                    !.morphVertices = Append(@, [index |-> NoneInt,
                                                 morph |-> Len(ms.morphs),
                                                 entry |-> e]),
                    !.uMorphVertex = Len(ms.morphVertices) + 1]
    ELSE [ms EXCEPT !.morphs[Len(ms.morphs)].vertexBufferMap[b].elementMask = r.elementMask,
                    !.errorsMorphIndices = IF tVertexBlenderIndex # NoneInt
                                           THEN @ \cup {tMorphVertex.blenderIndex}
                                           ELSE @,
                    !.caught = TRUE,
                    !.raised = IF formatRaises THEN "TypeError" ELSE @]

CreateMorphVertex(ms, e, b, tMorphVertex, tVertexBlenderIndex, formatRaises) ==
    BuildMorphVertex(ms, e, b,
                     UrhoVertex(tMorphVertex,
                                ms.morphs[Len(ms.morphs)].vertexBufferMap[b].elementMask),
                     tMorphVertex, tVertexBlenderIndex, formatRaises)

\* The outcome r of subtract is stored in the vectors of object o
StoreSubtracted(ms, o, r) ==
    [ms EXCEPT !.morphsList[o.morph].vertexMap[o.entry][2] = r.vertex,
               !.raised = IF r.raised THEN "TypeError" ELSE @]

\* "uMorphVertex.subtract(uVertex, uMorphVertexBuffer.elementMask)"
SubtractOriginal(ms, b, uVertexIndex) ==
    IF ms.raised # "no" THEN ms
    ELSE StoreSubtracted(ms, ms.morphVertices[ms.uMorphVertex],
             Subtract(ms.morphsList[ms.morphVertices[ms.uMorphVertex].morph]
                          .vertexMap[ms.morphVertices[ms.uMorphVertex].entry][2],
                      ms.vertexBuffers[b + 1].vertices[uVertexIndex + 1],
                      ms.morphs[Len(ms.morphs)].vertexBufferMap[b].elementMask))

\* Lines 1167-1178: the object is indexed and appended, the morph range of the
\* vertex buffer is widened
AppendMorphVertex(ms, b, uVertexIndex) ==
    IF ms.raised # "no" THEN ms
    ELSE [ms EXCEPT
            !.morphVertices[ms.uMorphVertex].index = uVertexIndex,
            !.morphs[Len(ms.morphs)].vertexBufferMap[b].vertices = Append(@, ms.uMorphVertex),
            !.vertexBuffers[b + 1].morphMinIndex =
                IF @ = NoneInt \/ uVertexIndex < @ THEN uVertexIndex ELSE @,
            !.vertexBuffers[b + 1].morphMaxIndex =
                IF ms.vertexBuffers[b + 1].morphMinIndex = NoneInt THEN uVertexIndex
                ELSE IF uVertexIndex < ms.vertexBuffers[b + 1].morphMinIndex THEN @
                ELSE IF uVertexIndex > @ THEN uVertexIndex
                ELSE @]

MorphLocation(ms, e, b, uVertexIndex, tMorphVertex, tVertexBlenderIndex, formatRaises) ==
    AppendMorphVertex(
        SubtractOriginal(
            CreateMorphVertex(OpenMorphBuffer(ms, b), e, b, tMorphVertex,
                              tVertexBlenderIndex, formatRaises),
            b, uVertexIndex),
        b, uVertexIndex)

LocationLess(x, y) == x[1] < y[1] \/ (x[1] = y[1] /\ x[2] < y[2])

\* The order in which a set of <<buffer, index>> pairs is iterated depends on
\* the interpreter: ascending or descending here
RECURSIVE LocationsInOrder(_, _)
LocationsInOrder(set, descending) ==
    IF set = {} THEN << >>
    ELSE LET first == CHOOSE x \in set :
                          \A y \in set \ {x} :
                              IF descending THEN LocationLess(y, x) ELSE LocationLess(x, y)
         IN  <<first>> \o LocationsInOrder(set \ {first}, descending)

\* "for uVertexBufferIndex, uVertexIndex in vbviSet"
RECURSIVE MorphLocations(_, _, _, _, _, _)
MorphLocations(ms, e, locations, k, tVertexBlenderIndex, formatRaises) ==
    IF k > Len(locations) \/ ms.raised # "no" THEN ms
    ELSE MorphLocations(
             MorphLocation(ms, e, locations[k][1], locations[k][2],
                           ms.morphsList[Len(ms.morphs)].vertexMap[e][2],
                           tVertexBlenderIndex, formatRaises),
             e, locations, k + 1, tVertexBlenderIndex, formatRaises)

\* "for tVertexIndex, tMorphVertex in tMorph.vertexMap.items()": a source
\* index no geometry uses is missing in modelIndexMap
RECURSIVE MorphEntries(_, _, _, _, _, _)
MorphEntries(ms, e, indexMap, tVertexBlenderIndex, formatRaises, descending) ==
    IF e > Len(ms.morphsList[Len(ms.morphs)].vertexMap) \/ ms.raised # "no" THEN ms
    ELSE IF ms.morphsList[Len(ms.morphs)].vertexMap[e][1] \notin DOMAIN indexMap
    THEN [ms EXCEPT !.raised = "KeyError"]
    ELSE MorphEntries(
             MorphLocations(ms, e,
                 LocationsInOrder(indexMap[ms.morphsList[Len(ms.morphs)].vertexMap[e][1]],
                                  descending),
                 1, tVertexBlenderIndex, formatRaises),
             e + 1, indexMap, tVertexBlenderIndex, formatRaises, descending)

\* "for tMorph in tData.morphsList"
RECURSIVE AddMorphs(_, _, _, _, _)
AddMorphs(ms, indexMap, tVertexBlenderIndex, formatRaises, descending) ==
    IF Len(ms.morphs) = Len(ms.morphsList) \/ ms.raised # "no" THEN ms
    ELSE AddMorphs(
             MorphEntries([ms EXCEPT !.morphs =
                              Append(@, [UrhoVertexMorph EXCEPT
                                            !.name = ms.morphsList[Len(ms.morphs) + 1].name])],
                          1, indexMap, tVertexBlenderIndex, formatRaises, descending),
             indexMap, tVertexBlenderIndex, formatRaises, descending)

\* Lines 1180-1184: buffers without morphs get the range 0..0
ZeroMorphRange(uVertexBuffer) ==
    IF uVertexBuffer.morphMinIndex # NoneInt THEN uVertexBuffer
    ELSE [uVertexBuffer EXCEPT !.morphMinIndex = 0, !.morphMaxIndex = 0]

CloseMorphs(ms) ==
    IF ms.raised # "no" THEN ms
    ELSE [ms EXCEPT !.vertexBuffers = [b \in 1..Len(@) |-> ZeroMorphRange(@[b])]]

MorphsResult(formatRaises, descending) ==
    CloseMorphs(AddMorphs([morphsList |-> tData.morphsList,
                           morphs |-> morphs,
                           morphVertices |-> morphVertices,
                           uMorphVertex |-> uMorphVertex,
                           vertexBuffers |-> vertexBuffers,
                           errorsMorphIndices |-> errorsMorphIndices,
                           caught |-> FALSE,
                           raised |-> "no"],
                          modelIndexMap, LastBlenderIndex(tData), formatRaises, descending))

\* Lines 1133-1184: the morphs. The interpreter makes a difference when the
\* MaskError handler runs and when a source vertex has several places.
ExportMorphs ==
    /\ pc = "morphs"
    /\ \E formatRaises \in BOOLEAN, descending \in BOOLEAN :
         \E ms \in {MorphsResult(formatRaises, descending)} :
            /\ formatRaises => ms.caught
            /\ tData' = [tData EXCEPT !.morphsList = ms.morphsList]
            /\ morphs' = ms.morphs
            /\ morphVertices' = ms.morphVertices
            /\ uMorphVertex' = ms.uMorphVertex
            /\ vertexBuffers' = ms.vertexBuffers
            /\ errorsMorphIndices' = ms.errorsMorphIndices
            /\ pc' = IF ms.raised # "no" THEN "raised" ELSE "animations"
    /\ UNCHANGED <<uExportOptions, geomIndex, useOneBuffer, bones, indexBuffers,
                   geometries, boundingBox, uVertex, uVerticesMap, modelIndexMap,
                   errorsIndices, errorsDict, animations, fw, disk>>

\* Lines 1187-1218: the animations; an exception leaves UrhoExport
ExportAnimations ==
    /\ pc = "animations"
    /\ \E out \in {AddAnimations([uAnimations |-> animations, raised |-> "no"],
                                 tData.animationsList, 1)} :
           /\ animations' = out.uAnimations
           /\ pc' = IF out.raised # "no" THEN "raised" ELSE "done"
    /\ UNCHANGED <<tData, uExportOptions, geomIndex, useOneBuffer, bones, vertexBuffers,
                   indexBuffers, geometries, boundingBox, uVertex, uVerticesMap,
                   modelIndexMap, errorsIndices, morphVars, fw, disk>>

Next ==
    \/ Setup
    \/ ExportGeometry
    \/ Finalize
    \/ UpdateBones
    \/ ExportMorphs
    \/ ExportAnimations

(***************************************************************************)
(* The file writers                                                        *)
(***************************************************************************)
\* No file at the target path
NoFile == [exists |-> FALSE, content |-> << >>]

\* No writer has been called
NoWriter ==
    [writer |-> "none", pc |-> "idle", argument |-> << >>, openFails |-> FALSE,
     formatRaises |-> FALSE, before |-> NoFile, buffer |-> << >>]

\* The values written for the elements of a list, in order
RECURSIVE Flatten(_)
Flatten(chunks) ==
    IF chunks = << >> THEN << >> ELSE Head(chunks) \o Flatten(Tail(chunks))

\* Lines 530-534, "Morphable vertex count": "if buffer.morphMaxIndex != 0"
MorphRangeCount(buffer) ==
    IF buffer.morphMaxIndex # 0
    THEN buffer.morphMaxIndex - buffer.morphMinIndex + 1
    ELSE 0

\* The values UrhoWriteModel puts into the buffer: per vertex buffer the
\* vertex count, the element mask and the morphable range (start, count),
\* per index buffer the index count and the index size, per geometry the
\* sizes of its bone map and LOD list
ModelContent(model) ==
    <<"UMDL", Len(model.vertexBuffers)>>
    \o Flatten([b \in 1..Len(model.vertexBuffers) |->
                   <<Len(model.vertexBuffers[b].vertices),
                     model.vertexBuffers[b].elementMask,
                     model.vertexBuffers[b].morphMinIndex,
                     MorphRangeCount(model.vertexBuffers[b])>>])
    \o <<Len(model.indexBuffers)>>
    \o Flatten([b \in 1..Len(model.indexBuffers) |->
                   <<Len(model.indexBuffers[b].indexes), model.indexBuffers[b].indexSize>>])
    \o <<Len(model.geometries)>>
    \o Flatten([g \in 1..Len(model.geometries) |->
                   <<Len(model.geometries[g].boneMap), Len(model.geometries[g].lodLevels)>>])

\* The values UrhoWriteAnimation puts into the buffer
AnimationContent(animation) ==
    <<"UANI", animation.name, 0, animation.length, Len(animation.tracks)>>
    \o Flatten([t \in 1..Len(animation.tracks) |->
                   <<animation.tracks[t].name, 0, animation.tracks[t].mask,
                     Len(animation.tracks[t].keyframes)>>])

\* materialElem of UrhoWriteMaterial: the list of its sub-elements
MaterialElement(material) ==
    << <<"technique", material.techniqueName>> >>
    \o (IF material.diffuseTexName # ""
        THEN << <<"texture", "diffuse", material.diffuseTexName>> >> ELSE << >>)
    \o (IF material.twoSided
        THEN << <<"cull", "none">>, <<"shadowcull", "none">> >> ELSE << >>)

\* XmlToPrettyString: the element and its sub-elements as text
XmlToPrettyString(elem) == <<"<material>">> \o Flatten(elem) \o <<"</material>">>

\* content of UrhoWriteMaterialsList: a line per material index
MaterialsListContent(materialsIndices, materialsFilenames) ==
    Flatten([k \in 1..Len(materialsIndices) |->
                <<materialsFilenames[materialsIndices[k] + 1], "\n">>])

\* "if not model.vertexBuffers or not model.indexBuffers or not
\* model.geometries" and "if not animation.tracks"
NoData(w) ==
    \/ /\ w.writer = "UrhoWriteModel"
       /\ \/ w.argument.vertexBuffers = << >>
          \/ w.argument.indexBuffers = << >>
          \/ w.argument.geometries = << >>
    \/ /\ w.writer = "UrhoWriteAnimation"
       /\ w.argument.tracks = << >>

\* UrhoWriteModel, UrhoWriteAnimation: return at once when there is no data
WriteCheck ==
    /\ fw.pc = "check"
    /\ fw' = [fw EXCEPT !.pc = IF NoData(fw) THEN "returned" ELSE "open"]
    /\ UNCHANGED <<exportVars, disk>>

\* BinaryFileWriter.open inside "try": a new empty array, no file is
\* touched and nothing is raised
WriterOpen ==
    /\ fw.pc = "open"
    /\ fw' = [fw EXCEPT !.buffer = << >>, !.pc = "fill"]
    /\ UNCHANGED <<exportVars, disk>>

\* The fw.write... calls: the whole content is appended to the buffer
WriteFill ==
    /\ fw.pc = "fill"
    /\ fw' = [fw EXCEPT !.buffer = IF fw.writer = "UrhoWriteModel"
                                   THEN ModelContent(fw.argument)
                                   ELSE AnimationContent(fw.argument),
                        !.pc = "close"]
    /\ UNCHANGED <<exportVars, disk>>

\* BinaryFileWriter.close, open(self.filename, "wb", ...): creates or
\* truncates the file; a failure is raised out of close() and of the writer,
\* which calls fw.close() outside any "try"
CloseOpen ==
    /\ fw.pc = "close"
    /\ IF fw.openFails
       THEN fw' = [fw EXCEPT !.pc = "raised"] /\ UNCHANGED disk
       ELSE fw' = [fw EXCEPT !.pc = "tofile"] /\ disk' = [exists |-> TRUE, content |-> << >>]
    /\ UNCHANGED exportVars

\* BinaryFileWriter.close, self.buffer.tofile(file)
CloseToFile ==
    /\ fw.pc = "tofile"
    /\ disk' = [disk EXCEPT !.content = fw.buffer]
    /\ fw' = [fw EXCEPT !.pc = "fileclose"]
    /\ UNCHANGED exportVars

\* UrhoWriteMaterial: the element tree is built in memory
MaterialBuild ==
    /\ fw.pc = "build"
    /\ fw' = [fw EXCEPT !.buffer = MaterialElement(fw.argument), !.pc = "textopen"]
    /\ UNCHANGED <<exportVars, disk>>

\* UrhoWriteMaterialsList: the content is built in memory
ListContent ==
    /\ fw.pc = "content"
    /\ fw' = [fw EXCEPT !.buffer = MaterialsListContent(fw.argument.materialsIndices,
                                                        fw.argument.materialsFilenames),
                        !.pc = "textopen"]
    /\ UNCHANGED <<exportVars, disk>>

\* UrhoWriteMaterial, UrhoWriteMaterialsList: "try: file = open(filename,
\* "w")" creates or truncates the file.  The handler formats the exception
\* with "{:s}": str.format returns str(e) up to Python 3.3 and raises
\* TypeError from Python 3.4 on (formatRaises).
TextOpen ==
    /\ fw.pc = "textopen"
    /\ IF fw.openFails
       THEN /\ fw' = [fw EXCEPT !.pc = IF fw.formatRaises THEN "raised" ELSE "returned"]
            /\ UNCHANGED disk
       ELSE /\ fw' = [fw EXCEPT !.pc = IF fw.writer = "UrhoWriteMaterial"
                                       THEN "pretty" ELSE "write"]
            /\ disk' = [exists |-> TRUE, content |-> << >>]
    /\ UNCHANGED exportVars

\* UrhoWriteMaterial: the argument of file.write, XmlToPrettyString(materialElem)
MaterialPretty ==
    /\ fw.pc = "pretty"
    /\ fw' = [fw EXCEPT !.buffer = XmlToPrettyString(fw.buffer), !.pc = "write"]
    /\ UNCHANGED <<exportVars, disk>>

\* UrhoWriteMaterial, UrhoWriteMaterialsList: file.write(...)
TextWrite ==
    /\ fw.pc = "write"
    /\ disk' = [disk EXCEPT !.content = fw.buffer]
    /\ fw' = [fw EXCEPT !.pc = "fileclose"]
    /\ UNCHANGED exportVars

\* file.close(), after which the writer returns
FileClose ==
    /\ fw.pc = "fileclose"
    /\ fw' = [fw EXCEPT !.pc = "returned"]
    /\ UNCHANGED <<exportVars, disk>>

NextWrite ==
    \/ WriteCheck \/ WriterOpen \/ WriteFill \/ CloseOpen \/ CloseToFile
    \/ MaterialBuild \/ ListContent \/ TextOpen \/ MaterialPretty \/ TextWrite
    \/ FileClose

(***************************************************************************)
(* Inputs                                                                  *)
(***************************************************************************)
TVertex(pos, normal, uv, weights) ==
    [pos |-> pos, normal |-> normal, color |-> None, uv |-> uv, uv2 |-> None,
     tangent |-> None, weights |-> weights, blenderIndex |-> NoneInt]

\* Every source vertex gets its list position as blenderIndex
WithBlenderIndex(list) == [k \in 1..Len(list) |-> [list[k] EXCEPT !.blenderIndex = k - 1]]

\* Source vertices for deduplication: equal, almost equal (same and other
\* hash bucket), same position with other normals and UV, a zero normal,
\* and one with fewer elements
MeshPool ==
    { TVertex(<<0, 0, 0>>, <<Unit, 0, 0>>, <<0, 0>>, None),
      TVertex(<<0, 0, 0>>, <<Unit, 1, 0>>, <<0, 0>>, None),
      TVertex(<<0, 0, 0>>, <<Unit, 2, 0>>, <<2, 0>>, None),
      TVertex(<<1, 0, 0>>, <<Unit, 0, 0>>, <<0, 0>>, None),
      TVertex(<<0, 0, 0>>, <<0, 0, 0>>, <<0, 0>>, None),
      TVertex(<<0, 0, 0>>, None, None, None) }

\* Source vertices beyond the third of a mesh: a duplicate of the first of
\* MeshPool and the one with fewer elements
LateMeshPool ==
    { TVertex(<<0, 0, 0>>, <<Unit, 0, 0>>, <<0, 0>>, None),
      TVertex(<<0, 0, 0>>, None, None, None) }

\* The lists of n source vertices: the first `full` from pool, the rest from late
VertexLists(n, full, pool, late) ==
    { [k \in 1..n |-> IF k <= full THEN pair[1][k] ELSE pair[2][k]] :
        pair \in [1..Min(n, full) -> pool] \X [(full + 1)..n -> late] }

\* One triangle over the vertices of a LOD
Triangle(indexSet) ==
    <<indexSet[1], indexSet[Min(2, Len(indexSet))], indexSet[Len(indexSet)]>>

\* How source vertex k + 1 relates to vertex k: same LOD, next LOD, next geometry
GapKinds == {"vertex", "lod", "geometry"}

\* The index sets: geometries of LODs of consecutive source vertices
RECURSIVE IndexSets(_, _, _)
IndexSets(gaps, k, sets) ==
    IF k > Len(gaps) THEN sets
    ELSE LET g == Len(sets)
             l == Len(sets[g])
         IN  IndexSets(gaps, k + 1,
                 IF gaps[k] = "vertex" THEN [sets EXCEPT ![g][l] = Append(@, k)]
                 ELSE IF gaps[k] = "lod" THEN [sets EXCEPT ![g] = Append(@, <<k>>)]
                 ELSE Append(sets, << <<k>> >>))

\* tData.geometriesList for the gaps; LOD i > 0 is drawn from distance i * Unit
Geometries(gaps, firstDistance) ==
    LET sets == IndexSets(gaps, 1, << << <<0>> >> >>)
    IN  [g \in 1..Len(sets) |->
            [lodLevels |-> [l \in 1..Len(sets[g]) |->
                [distance |-> IF l = 1 THEN firstDistance ELSE (l - 1) * Unit,
                 indexSet |-> sets[g][l],
                 triangleList |-> <<Triangle(sets[g][l])>>]]]]

\* A chain of n bones, bone k placed at <<k * Unit, 0, 0>>
Bones(n) ==
    [k \in 1..n |-> [name |-> k - 1,
                     parentName |-> IF k = 1 THEN NoneInt ELSE k - 2,
                     worldPosition |-> <<(k - 1) * Unit, 0, 0>>]]

W(boneIndex, weight) == <<boneIndex, <<weight, 1>> >>

\* Source weights (None or <<list>>) over the first boneCount bones
CuratedWeights(boneCount) ==
    { None,
      << << >> >>,
      << <<W(1, 0)>> >>,
      << <<W(0, 1)>> >>,
      << <<W(1, 1), W(0, 2)>> >>,
      << <<W(1, 1), W(2, 1), W(3, 1), W(4, 2)>> >> }
    \cup (IF boneCount > MAX_SKIN_MATRICES
          THEN { << <<W(5, 1), W(6, 1), W(7, 2), W(0, 1)>> >> }
          ELSE {})

\* Every list of up to maxInfluences influences of weight 0..maxWeight, the
\* k-th on bone (k - 1) % MAX_SKIN_MATRICES
AllWeights(maxInfluences, maxWeight) ==
    UNION { { << [k \in 1..n |-> W((k - 1) % MAX_SKIN_MATRICES, f[k])] >> :
                f \in [1..n -> 0..maxWeight] } :
            n \in 0..maxInfluences }

\* Source vertices at a second position
LateSkinPool ==
    { TVertex(<<3 * Unit, 0, 0>>, None, None, w) :
        w \in { << <<W(1, 1), W(0, 2)>> >>,
                << <<W(1, 1), W(2, 1), W(3, 1), W(4, 2)>> >> } }

SkinPool(boneCount) ==
    { TVertex(<<0, 0, 0>>, None, None, w) : w \in CuratedWeights(boneCount) }
    \cup LateSkinPool

\* Source keyframes: a time and either no channel or a position
Frames ==
    { [time |-> t, position |-> p, rotation |-> None, scale |-> None] :
        t \in 0..MaxTime, p \in { None, <<0, 0, 0>> } }

SeqsUpTo(S, n) == UNION { [1..m -> S] : m \in 0..n }

Tracks(maxFrames) == { [name |-> 0, frames |-> f] : f \in SeqsUpTo(Frames, maxFrames) }

\* The tracks next to the one that varies: without frames, with a frame
\* without channels, with one position frame
PlainTracks ==
    { [name |-> 0, frames |-> f] :
        f \in { << >>,
                << [time |-> 1, position |-> None, rotation |-> None, scale |-> None] >>,
                << [time |-> 1, position |-> <<0, 0, 0>>, rotation |-> None,
                    scale |-> None] >> } }

\* Up to maxTracks tracks, one of them any track and the others plain
TrackLists(maxTracks, maxFrames) ==
    { << >> } \cup
    UNION { UNION { { [k \in 1..n |-> IF k = p THEN t ELSE c[k]] :
                        t \in Tracks(maxFrames), c \in [1..n -> PlainTracks] } :
                    p \in 1..n } :
            n \in 1..maxTracks }

\* Tracks are named by their position in the animation
SourceAnimations(maxTracks, maxFrames) ==
    { [name |-> 0, tracks |-> [k \in 1..Len(ts) |-> [ts[k] EXCEPT !.name = k - 1]]] :
        ts \in TrackLists(maxTracks, maxFrames) }

\* A source animation with one track of two position keyframes
PlainAnimation ==
    [name |-> 1,
     tracks |-> << [name |-> 0,
                    frames |-> << [time |-> 0, position |-> <<0, 0, 0>>,
                                   rotation |-> None, scale |-> None],
                                  [time |-> 1, position |-> <<Unit, 0, 0>>,
                                   rotation |-> None, scale |-> None] >>] >>]

\* The state in which UrhoExport starts on the given input
NoErrors == [mask |-> {}, morph |-> {}]

\* Lines 838-852: the sets of errorsDict are taken over, or created empty
StartErrors(data, options, errors) ==
    /\ tData = data
    /\ uExportOptions = options
    /\ pc = "start"
    /\ geomIndex = 0
    /\ useOneBuffer = TRUE
    /\ bones = << >>
    /\ vertexBuffers = << >>
    /\ indexBuffers = << >>
    /\ geometries = << >>
    /\ boundingBox = EmptyBox
    /\ uVertex = VertexFields(TVertex(None, None, None, None))
    /\ uVerticesMap = << >>
    /\ modelIndexMap = << >>
    /\ errorsDict = errors
    /\ errorsIndices = errors.mask
    /\ errorsMorphIndices = errors.morph
    /\ morphs = << >>
    /\ morphVertices = << >>
    /\ uMorphVertex = 0
    /\ animations = << >>

StartExport(data, options) == StartErrors(data, options, NoErrors)

\* UrhoExport starts; no writer has been called
Start(data, options) ==
    /\ StartExport(data, options)
    /\ fw = NoWriter
    /\ disk = NoFile

Options == [splitSubMeshes : BOOLEAN, useStrictLods : BOOLEAN]

\* The same geometries with LODs that draw no triangle
Undrawn(geometriesList) ==
    [g \in 1..Len(geometriesList) |->
        [lodLevels |-> [l \in 1..Len(geometriesList[g].lodLevels) |->
            [geometriesList[g].lodLevels[l] EXCEPT !.triangleList = << >>]]]]

\* Two geometries of one LOD each: the first has n vertices and draws one
\* triangle over the first two and the last of them, the second has one vertex
LargeGeometries(n) ==
    << [lodLevels |-> << [distance |-> 0,
                          indexSet |-> [k \in 1..n |-> k - 1],
                          triangleList |-> << <<0, 1, n - 1>> >>] >>],
       [lodLevels |-> << [distance |-> 0,
                          indexSet |-> <<0>>,
                          triangleList |-> << <<0, 0, 0>> >>] >>] >>

\* Meshes without skeleton: deduplication, LODs, buffers
Init ==
    \E gaps \in [1..(NumVertices - 1) -> GapKinds], options \in Options :
        \/ \E list \in VertexLists(NumVertices, 3, MeshPool, LateMeshPool) :
              Start([verticesList |-> WithBlenderIndex(list),
                     geometriesList |-> Geometries(gaps, 0),
                     bonesMap |-> << >>,
                     morphsList |-> << >>,
                     animationsList |-> << >>], options)
        \* vertices at different places, the first LOD of every geometry
        \* drawn from distance 1.0
        \/ Start([verticesList |->
                      WithBlenderIndex([k \in 1..NumVertices |->
                          TVertex(<<k * Unit, 0, 0>>, <<Unit, 0, 0>>, <<0, 0>>, None)]),
                  geometriesList |-> Geometries(gaps, Unit),
                  bonesMap |-> << >>,
                  morphsList |-> << >>,
                  animationsList |-> << >>], options)
        \* more vertices than 16-bit indices address: every LOD within the
        \* limit, or one LOD over it
        \/ \E large \in BOOLEAN, count \in {MAX_INDEX16 + 1, MAX_INDEX16 + 2} :
              Start([verticesList |->
                         WithBlenderIndex([k \in 1..count |->
                             TVertex(<<k * Unit, 0, 0>>, <<Unit, 0, 0>>, <<0, 0>>, None)]),
                     geometriesList |-> IF large THEN LargeGeometries(count)
                                        ELSE Geometries(gaps, 0),
                     bonesMap |-> << >>,
                     morphsList |-> << >>,
                     animationsList |-> << >>], options)
        \* vertices with or without a position, LODs with or without triangles
        \/ \E positioned \in BOOLEAN, drawn \in BOOLEAN :
              Start([verticesList |->
                         WithBlenderIndex([k \in 1..NumVertices |->
                             TVertex(IF positioned THEN <<k * Unit, 0, 0>> ELSE None,
                                     <<Unit, 0, 0>>, <<0, 0>>, None)]),
                     geometriesList |-> IF drawn THEN Geometries(gaps, 0)
                                        ELSE Undrawn(Geometries(gaps, 0)),
                     bonesMap |-> << >>,
                     morphsList |-> << >>,
                     animationsList |-> << >>], options)

\* Skinned meshes: a skeleton within or over the skinning limit
InitSkin ==
    \/ \E boneCount \in {MAX_SKIN_MATRICES, MAX_SKIN_MATRICES + 3},
          gaps \in [1..(NumSkinVertices - 1) -> GapKinds],
          options \in Options :
         \E list \in VertexLists(NumSkinVertices, 2, SkinPool(boneCount), LateSkinPool) :
            Start([verticesList |-> WithBlenderIndex(list),
                   geometriesList |-> Geometries(gaps, 0),
                   bonesMap |-> Bones(boneCount),
                   morphsList |-> << >>,
                   animationsList |-> << >>], options)
    \/ \E w \in AllWeights(MaxInfluences, MaxWeight) :
            Start([verticesList |-> WithBlenderIndex(<<TVertex(<<0, 0, 0>>, None, None, w)>>),
                   geometriesList |-> Geometries(<< >>, 0),
                   bonesMap |-> Bones(MAX_SKIN_MATRICES),
                   morphsList |-> << >>,
                   animationsList |-> << >>],
                  [splitSubMeshes |-> FALSE, useStrictLods |-> TRUE])

\* Source vertices of the meshes with morphs: the first ones alike, the last
\* one with or without a normal and with or without a source index
MorphedVertexLists(n) ==
    { [k \in 1..n |->
          IF k < n
          THEN [TVertex(<<k * Unit, 0, 0>>, <<Unit, 0, 0>>, None, None)
                    EXCEPT !.blenderIndex = k - 1]
          ELSE [TVertex(<<k * Unit, 0, 0>>, normal, None, None)
                    EXCEPT !.blenderIndex = index]] :
        normal \in {None, <<Unit, 0, 0>>}, index \in {NoneInt, n - 1} }

\* Their geometries: consecutive source vertices, or two geometries of one
\* LOD over all of them
MorphedGeometries(n) ==
    { Geometries(gaps, 0) : gaps \in [1..(n - 1) -> GapKinds] }
    \cup { [g \in 1..2 |->
               [lodLevels |-> << [distance |-> 0,
                                  indexSet |-> [k \in 1..n |-> k - 1],
                                  triangleList |-> << <<0, n - 1, 0>> >>] >>]] }

\* The entry of a vertex map that moves source vertex t and has its elements
PlainMorphEntry(t) ==
    <<t, [TVertex(<<t * Unit + 1, 0, 0>>, <<Unit, 1, 0>>, None, None)
              EXCEPT !.blenderIndex = t]>>

\* The entries that vary: on a source vertex of the mesh or on index n, which
\* no geometry uses; with or without a normal, with or without a source index
SourceMorphEntries(n) ==
    { <<t, [TVertex(<<t * Unit + 2, 0, 0>>, normal, None, None)
                EXCEPT !.blenderIndex = IF indexed THEN t ELSE NoneInt]>> :
        t \in 0..n, normal \in {None, <<Unit, 2, 0>>}, indexed \in BOOLEAN }

\* Vertex maps: empty, one entry, or one entry before or after a plain one
\* on another source vertex
MorphVertexMaps(n) ==
    { << >> }
    \cup { <<x>> : x \in SourceMorphEntries(n) }
    \cup UNION { IF x[1] = t THEN {}
                  ELSE { <<PlainMorphEntry(t), x>>, <<x, PlainMorphEntry(t)>> } :
                  t \in 0..(n - 1), x \in SourceMorphEntries(n) }

\* One morph, alone or after a plain morph
MorphLists(n) ==
    UNION { { << [name |-> 0, vertexMap |-> map] >>,
              << [name |-> 1, vertexMap |-> <<PlainMorphEntry(0)>>],
                 [name |-> 0, vertexMap |-> map] >> } :
            map \in MorphVertexMaps(n) }

\* Meshes with morphs; errorsDict is new or holds entries of earlier calls
InitMorph ==
    \E list \in MorphedVertexLists(NumMorphVertices),
       geometriesList \in MorphedGeometries(NumMorphVertices),
       morphsList \in MorphLists(NumMorphVertices),
       options \in Options,
       errors \in {NoErrors, [mask |-> {NumMorphVertices + 1},
                              morph |-> {NumMorphVertices + 2}]} :
        /\ StartErrors([verticesList |-> list,
                        geometriesList |-> geometriesList,
                        bonesMap |-> << >>,
                        morphsList |-> morphsList,
                        animationsList |-> << >>], options, errors)
        /\ fw = NoWriter
        /\ disk = NoFile

\* Animations of a one-vertex mesh
InitAnim ==
    \E a \in SourceAnimations(MaxTracks, MaxFrames) :
       \E list \in { <<a>>, <<a, PlainAnimation>>, <<PlainAnimation, a>> } :
            Start([verticesList |-> WithBlenderIndex(<<TVertex(<<0, 0, 0>>, None, None, None)>>),
                   geometriesList |-> Geometries(<< >>, 0),
                   bonesMap |-> << >>,
                   morphsList |-> << >>,
                   animationsList |-> list],
                  [splitSubMeshes |-> FALSE, useStrictLods |-> TRUE])

\* The models given to UrhoWriteModel: with and without vertex buffers,
\* index buffers and geometries
WriterModels ==
    [vertexBuffers : {<< >>} \cup
                     { << [vertices |-> <<0, 0>>, elementMask |-> ELEMENT_POSITION,
                           morphMinIndex |-> 0, morphMaxIndex |-> max] >> : max \in {0, 1} },
     indexBuffers : {<< >>, << [indexes |-> <<0, 0, 0>>, indexSize |-> 2] >>},
     geometries : {<< >>, << [boneMap |-> << >>, lodLevels |-> <<0>>] >>}]

\* The animations given to UrhoWriteAnimation: without and with tracks
WriterAnimations ==
    [name : {0},
     length : {0, 1},
     tracks : {<< >>,
               << [name |-> 0, mask |-> TRACK_POSITION, keyframes |-> << >>] >>,
               << [name |-> 0, mask |-> TRACK_POSITION, keyframes |-> <<0>>],
                  [name |-> 1, mask |-> TRACK_ROTATION, keyframes |-> << >>] >>}]

\* The materials given to UrhoWriteMaterial
WriterMaterials ==
    [techniqueName : {"Diff"}, diffuseTexName : {"", "wood.png"}, twoSided : BOOLEAN]

\* The arguments of UrhoWriteMaterialsList
WriterLists ==
    [materialsIndices : {<< >>, <<0>>, <<1, 0>>},
     materialsFilenames : {<<"a.xml", "b.xml">>}]

\* The call of a writer: its first position and its arguments
WriterCalls ==
    ({"UrhoWriteModel"} \X {"check"} \X WriterModels)
    \cup ({"UrhoWriteAnimation"} \X {"check"} \X WriterAnimations)
    \cup ({"UrhoWriteMaterial"} \X {"build"} \X WriterMaterials)
    \cup ({"UrhoWriteMaterialsList"} \X {"content"} \X WriterLists)

\* One call of one writer; the target file exists or not, opening it for
\* writing fails or not
InitWrite ==
    /\ StartExport([verticesList |-> << >>, geometriesList |-> << >>,
                    bonesMap |-> << >>, morphsList |-> << >>,
                    animationsList |-> << >>],
                   [splitSubMeshes |-> FALSE, useStrictLods |-> TRUE])
    /\ disk \in {NoFile, [exists |-> TRUE, content |-> <<"old">>]}
    /\ \E call \in WriterCalls, openFails \in BOOLEAN, formatRaises \in BOOLEAN :
           fw = [writer |-> call[1], pc |-> call[2], argument |-> call[3],
                 openFails |-> openFails, formatRaises |-> formatRaises,
                 before |-> disk, buffer |-> << >>]

Spec == Init /\ [][Next]_vars
SpecWrite == InitWrite /\ [][NextWrite]_vars
SpecSkin == InitSkin /\ [][Next]_vars
SpecAnim == InitAnim /\ [][Next]_vars
SpecMorph == InitMorph /\ [][Next]_vars

(***************************************************************************)
(* Properties of the exported model                                        *)
(***************************************************************************)
\* UrhoExport has returned
Exported == pc = "done"

\* The <<geometry, LOD>> positions of the exported model
Lods == UNION {{<<g, l>> : l \in 1..Len(geometries[g].lodLevels)} : g \in 1..Len(geometries)}

LodOf(gl) == geometries[gl[1]].lodLevels[gl[2]]
SourceLodOf(gl) == tData.geometriesList[gl[1]].lodLevels[gl[2]]

\* The indices a LOD draws, in order
DrawnIndexes(lod) ==
    [k \in 1..lod.countIndex |-> indexBuffers[lod.indexBuffer + 1].indexes[lod.startIndex + k]]

\* The element mask of the fields present in a stored vertex
StoredMask(v) ==
    (IF v.pos # None THEN ELEMENT_POSITION ELSE 0)
    + (IF v.normal # None THEN ELEMENT_NORMAL ELSE 0)
    + (IF v.color # None THEN ELEMENT_COLOR ELSE 0)
    + (IF v.uv # None THEN ELEMENT_UV1 ELSE 0)
    + (IF v.uv2 # None THEN ELEMENT_UV2 ELSE 0)
    + (IF v.tangent # None THEN ELEMENT_TANGENT ELSE 0)
    + (IF v.weights # << >> THEN ELEMENT_BLEND ELSE 0)

\* C1: after UrhoExport every index a LOD draws exists in its index buffer
\* and is less than the number of vertices of the LOD's vertex buffer.
IndexesInRange ==
    Exported =>
        \A gl \in Lods :
            LET lod == LodOf(gl)
            IN  /\ lod.indexBuffer + 1 \in DOMAIN indexBuffers
                /\ lod.vertexBuffer + 1 \in DOMAIN vertexBuffers
                /\ lod.startIndex + lod.countIndex
                       <= Len(indexBuffers[lod.indexBuffer + 1].indexes)
                /\ \A k \in 1..lod.countIndex :
                       /\ DrawnIndexes(lod)[k] >= 0
                       /\ DrawnIndexes(lod)[k] < Len(vertexBuffers[lod.vertexBuffer + 1].vertices)

\* C1 witness: a later LOD that starts inside a shared index buffer draws
\* the last vertex of a buffer of several vertices
IndexesInRangeWitness ==
    /\ Exported
    /\ \E gl \in Lods :
           LET lod == LodOf(gl)
               n == Len(vertexBuffers[lod.vertexBuffer + 1].vertices)
           IN  /\ lod.startIndex > 0
               /\ n > 1
               /\ \E k \in 1..lod.countIndex : DrawnIndexes(lod)[k] = n - 1

\* C2 as stated: an index buffer has indexSize 2 exactly when the vertex
\* buffer it is paired with holds at most 65535 vertices, else 4.
IndexSizeFollowsVertexCount ==
    Exported =>
        \A gl \in Lods :
            LET lod == LodOf(gl)
                size == indexBuffers[lod.indexBuffer + 1].indexSize
                count == Len(vertexBuffers[lod.vertexBuffer + 1].vertices)
            IN  /\ size \in {2, 4}
                /\ size = 2 <=> count <= MAX_INDEX16

\* The bitwise AND of a non-empty set of masks
RECURSIVE MaskIntersection(_)
MaskIntersection(masks) ==
    LET m == CHOOSE x \in masks : TRUE
    IN  IF masks = {m} THEN m ELSE BitAnd(m, MaskIntersection(masks \ {m}))

\* The masks of the source vertices constructed for vertex buffer b (0-based)
SourceMasks(b) ==
    UNION {{VertexMask(tData.verticesList[SourceLodOf(gl).indexSet[k] + 1]) :
               k \in 1..Len(SourceLodOf(gl).indexSet)} :
           gl \in {x \in Lods : LodOf(x).vertexBuffer = b}}

\* C3 as stated: the mask of the present fields of every stored vertex
\* equals the elementMask of its buffer, on any input.
VertexMaskEqualsBufferMask ==
    Exported =>
        \A b \in 1..Len(vertexBuffers) :
            \A k \in 1..Len(vertexBuffers[b].vertices) :
                StoredMask(vertexBuffers[b].vertices[k]) = vertexBuffers[b].elementMask

\* C3 amended: the elementMask of a buffer is the intersection of the masks
\* of the source vertices constructed for it, so it is contained in the mask
\* of every stored vertex, and equals it when those source vertices all have
\* the same fields.
BufferMaskIsIntersection ==
    Exported =>
        \A b \in 1..Len(vertexBuffers) :
            LET masks == SourceMasks(b - 1)
                buffer == vertexBuffers[b]
            IN  masks # {} =>
                    /\ buffer.elementMask = MaskIntersection(masks)
                    /\ \A k \in 1..Len(buffer.vertices) :
                           /\ BitAnd(buffer.elementMask, StoredMask(buffer.vertices[k]))
                                  = buffer.elementMask
                           /\ Cardinality(masks) = 1 =>
                                  StoredMask(buffer.vertices[k]) = buffer.elementMask

\* C3 witness: a buffer built from source vertices with different fields
\* holds a vertex with more elements than the narrowed buffer mask
BufferMaskWitness ==
    /\ Exported
    /\ \E b \in 1..Len(vertexBuffers) :
           /\ Cardinality(SourceMasks(b - 1)) > 1
           /\ \E k \in 1..Len(vertexBuffers[b].vertices) :
                  StoredMask(vertexBuffers[b].vertices[k]) # vertexBuffers[b].elementMask

\* C6 as stated: the first LOD level of every exported geometry has distance 0.0.
FirstLodDistanceZero ==
    Exported =>
        \A g \in 1..Len(geometries) :
            geometries[g].lodLevels # << >> => geometries[g].lodLevels[1].distance = 0

\* The source vertices of a LOD, as UrhoVertex stores them
SourceVertex(tVertexIndex) == VertexFields(tData.verticesList[tVertexIndex + 1])

\* The LODs that draw from the vertex buffer of LOD gl
SharingLods(gl) == {x \in Lods : LodOf(x).vertexBuffer = LodOf(gl).vertexBuffer}

\* C4 as stated: for a LOD matched strictly, the k-th index of the LOD refers
\* to a buffer vertex AlmostEqual to the source vertex of the k-th triangle
\* corner; and when the LOD's source vertices are pairwise not AlmostEqual,
\* the buffer gains one vertex per source vertex (observed on a LOD that is
\* the only one filling its buffer).
StrictIndexMatchesSource ==
    Exported =>
        \A gl \in Lods :
            (gl[2] = 1 \/ uExportOptions.useStrictLods) =>
                LET lod == LodOf(gl)
                    src == SourceLodOf(gl)
                    corners == Corners(src.triangleList)
                    vertices == vertexBuffers[lod.vertexBuffer + 1].vertices
                    set == src.indexSet
                IN  /\ \A k \in 1..Len(corners) :
                           /\ DrawnIndexes(lod)[k] + 1 \in DOMAIN vertices
                           /\ AlmostEqual(vertices[DrawnIndexes(lod)[k] + 1],
                                          SourceVertex(corners[k]))
                    /\ (/\ SharingLods(gl) = {gl}
                        /\ \A i, j \in 1..Len(set) :
                               i # j => ~AlmostEqual(SourceVertex(set[i]), SourceVertex(set[j])))
                           => Len(vertices) = Len(set)

\* A stored vertex as the source vertex of a new export
AsSource(v) ==
    [pos |-> v.pos, normal |-> v.normal, color |-> v.color, uv |-> v.uv, uv2 |-> v.uv2,
     tangent |-> v.tangent,
     weights |-> IF v.weights = << >> THEN None ELSE <<v.weights>>,
     blenderIndex |-> NoneInt]

\* The vertex loop of LOD0 run on the vertices of a buffer, in buffer order
Rebuilt(vertices, formatRaises) ==
    AddVertices([vb |-> UrhoVertexBuffer,
                 uVertex |-> uVertex,
                 uVerticesMap |-> << >>,
                 indexMap |-> << >>,
                 errorsIndices |-> {},
                 boundingBox |-> EmptyBox,
                 caught |-> FALSE,
                 raised |-> "no"],
                [k \in 1..Len(vertices) |-> AsSource(vertices[k])],
                [k \in 1..Len(vertices) |-> k - 1], 1, TRUE, formatRaises)

\* C5 as stated: feeding the vertices of an exported vertex buffer back, in
\* buffer order, as the LOD0 of one geometry gives a buffer with the same
\* vertices in the same order.
DeduplicationIdempotent ==
    Exported =>
        \A b \in 1..Len(vertexBuffers) :
            \A formatRaises \in BOOLEAN :
                LET again == Rebuilt(vertexBuffers[b].vertices, formatRaises)
                IN  /\ again.raised = "no"
                    /\ again.vb.vertices = vertexBuffers[b].vertices

\* The vertices of blend-weighted buffers (both blend bits in the buffer mask)
BlendVertices ==
    UNION {{vertexBuffers[b].vertices[k] : k \in 1..Len(vertexBuffers[b].vertices)} :
           b \in {x \in 1..Len(vertexBuffers) :
                     BitAnd(vertexBuffers[x].elementMask, ELEMENT_BLEND) = ELEMENT_BLEND}}

WeightSum(v) == RatSum([k \in 1..Len(v.weights) |-> v.weights[k][2]])

\* The bone remapping ran and some geometry's bone map is full
RemapOverflowPossible ==
    /\ Len(bones) > MAX_SKIN_MATRICES
    /\ \E g \in 1..Len(geometries) : Len(geometries[g].boneMap) = MAX_SKIN_MATRICES

\* C7 as stated: every vertex of a blend-weighted buffer stores at most 4
\* pairs whose weights sum to 1.0, for every input.
BlendWeightsSumToOne ==
    Exported =>
        \A v \in BlendVertices : Len(v.weights) <= MAX_WEIGHTS /\ WeightSum(v) = RatOne

\* C7 amended: every vertex of a blend-weighted buffer stores exactly 4 pairs
\* of non-negative weight; the weights sum to 1.0, except that all four are
\* 0.0 when the 4 highest source weights total zero (also an empty list),
\* and that the sum is below 1.0 when the remapping of a skeleton of more
\* than MAX_SKIN_MATRICES bones zeroed a pair on a full bone map.
BlendWeightsNormalized ==
    Exported =>
        \A v \in BlendVertices :
            /\ Len(v.weights) = MAX_WEIGHTS
            /\ \A k \in 1..Len(v.weights) : ~RatLess(v.weights[k][2], RatZero)
            /\ \/ WeightSum(v) = RatOne
               \/ \A k \in 1..Len(v.weights) : v.weights[k][2] = RatZero
               \/ RemapOverflowPossible /\ RatLess(WeightSum(v), RatOne)

\* C7 witness: a vertex normalized over several bones next to one whose
\* weights the overflow branch reduced to a sum between 0 and 1
BlendWeightsWitness ==
    /\ Exported
    /\ \E v \in BlendVertices :
           WeightSum(v) = RatOne /\ \E k \in 1..Len(v.weights) : RatLess(RatZero, v.weights[k][2])
                                                                /\ RatLess(v.weights[k][2], RatOne)
    /\ \E v \in BlendVertices :
           RatLess(RatZero, WeightSum(v)) /\ RatLess(WeightSum(v), RatOne)

\* The source tuples of source vertex t (0-based), << >> without weights
SourceWeights(t) ==
    IF tData.verticesList[t + 1].weights = None THEN << >>
    ELSE tData.verticesList[t + 1].weights[1]

\* The buffer vertices created from source vertex t: those no earlier
\* source vertex is mapped to
CreatedFrom(t) ==
    IF t \notin DOMAIN modelIndexMap THEN {}
    ELSE {vertexBuffers[loc[1] + 1].vertices[loc[2] + 1] :
             loc \in {x \in modelIndexMap[t] :
                         \A t2 \in DOMAIN modelIndexMap : t2 < t => x \notin modelIndexMap[t2]}}

\* The positions of the source tuples of positive weight
Weighted(tw) == {j \in 1..Len(tw) : RatLess(RatZero, tw[j][2])}

\* w holds the tuples of tw at the positions K, by decreasing weight, each
\* weight divided by the sum over K, and no tuple outside K outweighs one in K
IsTopOf(w, tw, K) ==
    LET total == RatSum([k \in 1..Len(tw) |-> IF k \in K THEN tw[k][2] ELSE RatZero])
    IN  /\ \A j \in (1..Len(tw)) \ K : \A i \in K : ~RatLess(tw[i][2], tw[j][2])
        /\ \E f \in [1..Len(w) -> K] :
               /\ \A a, b \in 1..Len(w) : a # b => f[a] # f[b]
               /\ \A a \in 1..Len(w) :
                      w[a] = <<tw[f[a]][1], RatDiv(tw[f[a]][2], total)>>
        /\ \A a \in 1..(Len(w) - 1) : ~RatLess(w[a][2], w[a + 1][2])

\* C8: a source vertex with more than 4 influences of positive weight is
\* stored with exactly the 4 tuples of highest weight, by decreasing weight,
\* each weight divided by the sum of those 4, and every discarded tuple weighs
\* no more than a kept one (skeletons within MAX_SKIN_MATRICES: no remapping).
TopFourWeightsKept ==
    (Exported /\ Len(bones) <= MAX_SKIN_MATRICES) =>
        \A t \in 0..(Len(tData.verticesList) - 1) :
            Cardinality(Weighted(SourceWeights(t))) > MAX_WEIGHTS =>
                \A v \in CreatedFrom(t) :
                    /\ Len(v.weights) = MAX_WEIGHTS
                    /\ \E K \in SUBSET (1..Len(SourceWeights(t))) :
                           Cardinality(K) = MAX_WEIGHTS /\ IsTopOf(v.weights, SourceWeights(t), K)

\* C8 witness: more than five influences of positive weight, the first two
\* lighter than every later one, so that the stored tuples are not the first four
TopFourWeightsWitness ==
    /\ Exported
    /\ \E t \in 0..(Len(tData.verticesList) - 1) :
           LET tw == SourceWeights(t)
           IN  /\ Cardinality(Weighted(tw)) > MAX_WEIGHTS + 1
               /\ \A k \in 3..Len(tw) : RatLess(tw[1][2], tw[k][2]) /\ RatLess(tw[2][2], tw[k][2])
               /\ CreatedFrom(t) # {}

\* The source animation / track an exported one was built from (by name)
SourceAnimationOf(a) ==
    CHOOSE t \in {tData.animationsList[k] : k \in 1..Len(tData.animationsList)} :
        t.name = a.name

SourceTrackOf(a, tr) ==
    CHOOSE t \in {SourceAnimationOf(a).tracks[k] : k \in 1..Len(SourceAnimationOf(a).tracks)} :
        t.name = tr.name

ExportedTracks ==
    UNION {{<<animations[i], animations[i].tracks[j]>> : j \in 1..Len(animations[i].tracks)} :
           i \in 1..Len(animations)}

\* s is a rearrangement of t
IsPermutation(s, t) ==
    /\ Len(s) = Len(t)
    /\ \E p \in [1..Len(s) -> 1..Len(s)] :
           /\ \A a, b \in 1..Len(s) : a # b => p[a] # p[b]
           /\ \A a \in 1..Len(s) : s[a] = t[p[a]]

\* C9: the keyframes of every track of every exported animation are in
\* non-decreasing order of time and are a permutation of the frames of the
\* source track.
KeyframesSorted ==
    Exported =>
        \A at \in ExportedTracks :
            LET keyframes == at[2].keyframes
            IN  /\ \A k \in 1..(Len(keyframes) - 1) : keyframes[k].time <= keyframes[k + 1].time
                /\ IsPermutation(keyframes, SourceTrackOf(at[1], at[2]).frames)

\* C9 witness: an exported track whose source frames were not in time order
KeyframesSortedWitness ==
    /\ Exported
    /\ \E at \in ExportedTracks :
           LET frames == SourceTrackOf(at[1], at[2]).frames
           IN  \E k \in 1..(Len(frames) - 1) : frames[k].time > frames[k + 1].time

\* The mask a source track gets from its frames; 0 without frames
SourceTrackMask(tTrack) ==
    IF tTrack.frames = << >> THEN 0
    ELSE MaskIntersection({KeyframeMask(tTrack.frames[k]) : k \in 1..Len(tTrack.frames)})

KeptSourceTrack(tTrack) == tTrack.frames # << >> /\ SourceTrackMask(tTrack) # 0

HasKeptTrack(tAnimation) ==
    \E k \in 1..Len(tAnimation.tracks) : KeptSourceTrack(tAnimation.tracks[k])

Names(s) == [k \in 1..Len(s) |-> s[k].name]

\* The largest keyframe time of the tracks
LastTime(tracks) ==
    LET times == UNION {{tracks[j].keyframes[k].time : k \in 1..Len(tracks[j].keyframes)} :
                        j \in 1..Len(tracks)}
    IN  CHOOSE m \in times : \A x \in times : x <= m

\* C10: the exported animations are the source animations with at least one
\* kept track, their tracks are the source tracks with at least one keyframe
\* and a non-empty mask, and length is the largest keyframe time of those.
AnimationsKeepTracks ==
    Exported =>
        /\ Names(animations) = Names(SelectSeq(tData.animationsList, HasKeptTrack))
        /\ \A i \in 1..Len(animations) :
               /\ Names(animations[i].tracks)
                      = Names(SelectSeq(SourceAnimationOf(animations[i]).tracks, KeptSourceTrack))
               /\ animations[i].length = LastTime(animations[i].tracks)

\* C10 witness: an animation exported without one of its source tracks,
\* whose length is the time of a later keyframe than the first of the kept track
AnimationsKeepTracksWitness ==
    /\ Exported
    /\ \E i \in 1..Len(animations) :
           LET a == animations[i]
           IN  /\ Len(a.tracks) < Len(SourceAnimationOf(a).tracks)
               /\ a.length > a.tracks[Len(a.tracks)].keyframes[1].time

\* The buffers are split: on request, or when the vertices of the model
\* need 32-bit indices and the vertices of every single LOD do not
SplitBuffers ==
    \/ uExportOptions.splitSubMeshes
    \/ /\ Len(tData.verticesList) > MAX_INDEX16
       /\ \A g \in 1..Len(tData.geometriesList) :
              \A l \in 1..Len(tData.geometriesList[g].lodLevels) :
                  Len(tData.geometriesList[g].lodLevels[l].indexSet) <= MAX_INDEX16

\* C11: after UrhoExport all LODs of all geometries reference vertex buffer 0
\* and index buffer 0, the only ones, unless the buffers are split; then
\* there is one vertex buffer and one index buffer per geometry and all LODs
\* of geometry g reference the g-th pair.
BuffersSharedOrPerGeometry ==
    Exported =>
        IF SplitBuffers
        THEN /\ Len(vertexBuffers) = Len(geometries)
             /\ Len(indexBuffers) = Len(geometries)
             /\ \A gl \in Lods : /\ LodOf(gl).vertexBuffer = gl[1] - 1
                                 /\ LodOf(gl).indexBuffer = gl[1] - 1
        ELSE /\ Len(vertexBuffers) <= 1
             /\ Len(indexBuffers) <= 1
             /\ \A gl \in Lods : /\ LodOf(gl).vertexBuffer = 0
                                 /\ LodOf(gl).indexBuffer = 0

\* C11 witness: without a request to split, a model of more vertices than
\* the 16-bit limit whose LODs are all within it was exported with two
\* vertex buffers, the first geometry having two LODs.
BuffersSplitWitness ==
    /\ Exported
    /\ ~uExportOptions.splitSubMeshes
    /\ SplitBuffers
    /\ Len(vertexBuffers) = 2
    /\ Len(geometries[1].lodLevels) = 2

\* The call of the writer has ended: it returned or raised
WriterEnded == fw.pc \in {"returned", "raised"}

\* C12: a writer called with a model that lacks vertex buffers, index
\* buffers or geometries, with an animation without tracks, or whose target
\* file cannot be opened, returns to its caller without raising and leaves
\* the target file as it was.
WritersReturnOnFatal ==
    (WriterEnded /\ (NoData(fw) \/ fw.openFails)) =>
        (fw.pc = "returned" /\ disk = fw.before)

\* The last statement that writes to the file has been executed
FinalWriteDone == fw.pc \in {"fileclose", "returned"} /\ ~NoData(fw) /\ ~fw.openFails

\* C16: at every point of a writer before its final write the target file
\* is as it was before the call: not created, not truncated, not partially
\* written.
FileUntouchedBeforeFinalWrite == FinalWriteDone \/ disk = fw.before

\* The keyframes of a source track do not all have the same channels
MixedTrack(tTrack) ==
    \E i, j \in 1..Len(tTrack.frames) :
        KeyframeMask(tTrack.frames[i]) # KeyframeMask(tTrack.frames[j])

\* The channels that all keyframes of a source track have
RECURSIVE CommonMask(_, _)
CommonMask(frames, k) ==
    IF k = Len(frames) THEN KeyframeMask(frames[k])
    ELSE BitAnd(KeyframeMask(frames[k]), CommonMask(frames, k + 1))

\* C13: when UrhoExport has ended on animations of which a track has
\* keyframes with differing channels, no exception has left it, and every
\* exported track has all keyframes of its source track and the channels
\* common to them as its mask.
KeyframeMismatchRecovered ==
    (/\ pc \in {"done", "raised"}
     /\ \E a \in 1..Len(tData.animationsList) :
            \E t \in 1..Len(tData.animationsList[a].tracks) :
                MixedTrack(tData.animationsList[a].tracks[t])) =>
        /\ pc = "done"
        /\ \A x \in ExportedTracks :
               /\ Len(x[2].keyframes) = Len(SourceTrackOf(x[1], x[2]).frames)
               /\ x[2].mask = CommonMask(SourceTrackOf(x[1], x[2]).frames, 1)

\* The source vertex the vertex loop has processed last
LastSourceVertex ==
    LET lods == tData.geometriesList[geomIndex].lodLevels
        set == lods[Len(lods)].indexSet
    IN  tData.verticesList[set[Len(set)] + 1]

\* C14: no exception leaves the vertex loop, and after the vertex loop of a
\* geometry the vertex that was searched, mapped and merged last carries the
\* fields of the source vertex processed last, also when its construction
\* raised MaskError.
MaskErrorKeepsSourceVertex ==
    /\ pc # "raised"
    /\ (pc \in {"geometries", "finalize"} /\ geomIndex > 0) =>
           uVertex = VertexFields(LastSourceVertex)

\* The source vertices (0-based) stored at a position of their own in a
\* blend-weighted buffer
SkinnedSources ==
    {t \in DOMAIN modelIndexMap :
        \E loc \in modelIndexMap[t] :
            /\ BitAnd(vertexBuffers[loc[1] + 1].elementMask, ELEMENT_BLEND) = ELEMENT_BLEND
            /\ \A t2 \in DOMAIN modelIndexMap : t2 < t => loc \notin modelIndexMap[t2]}

\* Those of them whose normalized weight on skeleton bone b (0-based) is over
\* the threshold
HeavySources(b) ==
    {t \in SkinnedSources :
        \E k \in 1..MAX_WEIGHTS :
            /\ VertexWeights(tData.verticesList[t + 1].weights)[k][1] = b
            /\ RatLess(BONE_WEIGHT_THRESHOLD,
                       VertexWeights(tData.verticesList[t + 1].weights)[k][2])}

\* The distance of source vertex t to skeleton bone b (0-based)
BoneDistance(b, t) ==
    VectorLength([c \in 1..3 |-> bones[b + 1].derivedPosition[c]
                                  - tData.verticesList[t + 1].pos[c]])

BoneBits(b) ==
    /\ BitAnd(bones[b + 1].collisionMask, BONE_BOUNDING_SPHERE) # 0
    /\ BitAnd(bones[b + 1].collisionMask, BONE_BOUNDING_BOX) # 0

\* C20: after an export without mask errors, every skeleton bone b has the
\* sphere and box bits set iff some vertex of a blend-weighted buffer is
\* weighted to skeleton bone b with a normalized weight over 0.33, and its
\* radius is the largest distance to those vertices, also for skeletons of
\* more than MAX_SKIN_MATRICES bones whose indices were remapped.
BoneVolumesFollowSkeletonIndex ==
    (Exported /\ errorsIndices = {}) =>
        \A b \in 0..(Len(bones) - 1) :
            /\ BoneBits(b) <=> HeavySources(b) # {}
            /\ HeavySources(b) # {} =>
                   /\ \E t \in HeavySources(b) : bones[b + 1].radius = BoneDistance(b, t)
                   /\ \A t \in HeavySources(b) : bones[b + 1].radius >= BoneDistance(b, t)

\* The visits of the geometry loop in order, each <<vertex buffer, source
\* index, LOD index>> (all 0-based)
RECURSIVE Visits(_, _)
Visits(g, l) ==
    IF g > Len(tData.geometriesList) THEN << >>
    ELSE IF l > Len(tData.geometriesList[g].lodLevels) THEN Visits(g + 1, 1)
    ELSE [k \in 1..Len(tData.geometriesList[g].lodLevels[l].indexSet) |->
             <<IF useOneBuffer THEN 0 ELSE g - 1,
               tData.geometriesList[g].lodLevels[l].indexSet[k],
               l - 1>>]
         \o Visits(g, l + 1)

\* The mask of a buffer before visit j: the elements every source vertex
\* visited earlier for that buffer has
MaskBefore(visits, j) ==
    MaskIntersection({VertexMask(tData.verticesList[visits[i][2] + 1]) :
                         i \in {x \in 1..(j - 1) : visits[x][1] = visits[j][1]}})

\* The source vertices whose construction raised MaskError: their elements
\* differ from those of the buffer
MaskErrorSources ==
    {Visits(1, 1)[j][2] :
        j \in {x \in 1..Len(Visits(1, 1)) :
                  /\ \E i \in 1..(x - 1) : Visits(1, 1)[i][1] = Visits(1, 1)[x][1]
                  /\ VertexMask(tData.verticesList[Visits(1, 1)[x][2] + 1])
                         # MaskBefore(Visits(1, 1), x)}}

\* The morph vertices <<morph, entry>> whose construction raised MaskError
\* for some place of their source vertex: fewer objects than places
MaskErrorMorphVertices ==
    {x \in UNION {{<<m, e>> : e \in 1..Len(tData.morphsList[m].vertexMap)} :
                     m \in 1..Len(tData.morphsList)} :
        Cardinality({o \in 1..Len(morphVertices) :
                        morphVertices[o].morph = x[1] /\ morphVertices[o].entry = x[2]})
            < Cardinality(modelIndexMap[tData.morphsList[x[1]].vertexMap[x[2]][1]])}

IndicesOf(sourceVertices) ==
    {v.blenderIndex : v \in sourceVertices} \ {NoneInt}

\* C15: after UrhoExport the set "incompatible element mask" holds its
\* entries of before the call and the source indices of the source vertices
\* whose construction raised MaskError, the set "incompatible morph element
\* mask" its entries of before and the source indices of the morph vertices
\* whose construction raised MaskError, and nothing else.
ErrorSetsHoldOffendingIndices ==
    Exported =>
        /\ errorsIndices =
               errorsDict.mask
               \cup IndicesOf({tData.verticesList[t + 1] : t \in MaskErrorSources})
        /\ errorsMorphIndices =
               errorsDict.morph
               \cup IndicesOf({tData.morphsList[x[1]].vertexMap[x[2]][2] :
                                  x \in MaskErrorMorphVertices})

SetMax(S) == CHOOSE x \in S : \A y \in S : y <= x

\* The places of source vertex t in vertex buffer b
Places(b, t) == {loc[2] : loc \in {x \in modelIndexMap[t] : x[1] = b}}

\* The number of vertices of the buffer of visit j when that visit starts
CountBefore(visits, j) ==
    LET seen == UNION {Places(visits[j][1], visits[i][2]) :
                          i \in {x \in 1..(j - 1) : visits[x][1] = visits[j][1]}}
    IN  IF seen = {} THEN 0 ELSE SetMax(seen) + 1

\* The visits of LODs above 0 searched permissively, of source vertices with
\* one place in the model
PermissiveVisits(visits) ==
    {j \in 1..Len(visits) :
        /\ visits[j][3] > 0
        /\ ~uExportOptions.useStrictLods
        /\ Cardinality(modelIndexMap[visits[j][2]]) = 1}

\* The vertices (0-based) present at visit j with a finite LodError against
\* the source vertex of the visit
FiniteMatches(visits, j) ==
    {i \in 0..(CountBefore(visits, j) - 1) :
        LodError(vertexBuffers[visits[j][1] + 1].vertices[i + 1],
                 SourceVertex(visits[j][2])) < INFINITY}

MatchError(visits, j, i) ==
    LodError(vertexBuffers[visits[j][1] + 1].vertices[i + 1], SourceVertex(visits[j][2]))

\* Visit j took the best of the finite matches, or appended a vertex when
\* there was none
TookBestOf(visits, j, matches) ==
    LET u == CHOOSE x \in Places(visits[j][1], visits[j][2]) : TRUE
    IN  IF matches = {} THEN u = CountBefore(visits, j)
        ELSE /\ u \in matches
             /\ \A i \in matches : MatchError(visits, j, u) <= MatchError(visits, j, i)

\* C17: in a LOD above 0 without useStrictLods (and without mask errors)
\* every source vertex is mapped to a vertex of least LodError among all the
\* vertices already in the buffer with a finite LodError, and a vertex is
\* appended iff there is none.
PermissiveLodTakesBestMatch ==
    (Exported /\ errorsIndices = errorsDict.mask) =>
        \A j \in PermissiveVisits(Visits(1, 1)) :
            TookBestOf(Visits(1, 1), j, FiniteMatches(Visits(1, 1), j))

\* The finite matches the search sees: those under the hash of the position
BucketMatches(visits, j) ==
    {i \in FiniteMatches(visits, j) :
        VertexHash(vertexBuffers[visits[j][1] + 1].vertices[i + 1])
            = VertexHash(SourceVertex(visits[j][2]))}

\* The pairs of different positions of one buffer that hold AlmostEqual vertices
AlmostEqualPairs ==
    {x \in UNION {{<<b, i, j>> : i, j \in 1..Len(vertexBuffers[b].vertices)} :
                     b \in 1..Len(vertexBuffers)} :
        /\ x[2] < x[3]
        /\ AlmostEqual(vertexBuffers[x[1]].vertices[x[2]],
                       vertexBuffers[x[1]].vertices[x[3]])}

\* C18: with useStrictLods (and without mask errors) no two positions of a
\* vertex buffer hold vertices that are AlmostEqual.
StrictBuffersHoldDistinctVertices ==
    (Exported /\ uExportOptions.useStrictLods /\ errorsIndices = errorsDict.mask) =>
        AlmostEqualPairs = {}

\* The skeleton indices some weight pair of a source vertex refers to
SourceBones ==
    UNION {{SourceWeights(t)[k][1] : k \in 1..Len(SourceWeights(t))} :
           t \in 0..(Len(tData.verticesList) - 1)}

\* The buffers the LODs of geometry g (1-based) draw from have both blend elements
BlendGeometry(g) ==
    \E l \in 1..Len(geometries[g].lodLevels) :
        BitAnd(vertexBuffers[geometries[g].lodLevels[l].vertexBuffer + 1].elementMask,
               ELEMENT_BLEND) = ELEMENT_BLEND

\* C19: after UrhoExport (without mask errors) the boneMap of every geometry
\* has at most MAX_SKIN_MATRICES entries, pairwise distinct, each the skeleton
\* index of a bone some source weight pair refers to, and it is empty unless
\* the skeleton has more than MAX_SKIN_MATRICES bones and the buffer has both
\* blend elements.
BoneMapHoldsSourceBones ==
    (Exported /\ errorsIndices = errorsDict.mask) =>
        \A g \in 1..Len(geometries) :
            /\ Len(geometries[g].boneMap) <= MAX_SKIN_MATRICES
            /\ \A a, b \in 1..Len(geometries[g].boneMap) :
                   a # b => geometries[g].boneMap[a] # geometries[g].boneMap[b]
            /\ \A a \in 1..Len(geometries[g].boneMap) :
                   geometries[g].boneMap[a] \in SourceBones
            /\ geometries[g].boneMap # << >> =>
                   Len(bones) > MAX_SKIN_MATRICES /\ BlendGeometry(g)

SetMin(S) == CHOOSE x \in S : \A y \in S : x <= y

\* The original vertex indices recorded on the delta vertices that the
\* morphs list for vertex buffer b (0-based)
RecordedIndexes(b) ==
    UNION {{morphVertices[morphs[m].vertexBufferMap[b].vertices[k]].index :
               k \in 1..Len(morphs[m].vertexBufferMap[b].vertices)} :
           m \in {x \in 1..Len(morphs) : b \in DOMAIN morphs[x].vertexBufferMap}}

\* C21: after UrhoExport, a vertex buffer with delta vertices has
\* morphMinIndex and morphMaxIndex equal to the smallest and the largest
\* original index recorded on them, and a buffer without has 0 and 0.
MorphRangeSpansRecordedIndexes ==
    Exported =>
        \A b \in 0..(Len(vertexBuffers) - 1) :
            IF RecordedIndexes(b) = {}
            THEN vertexBuffers[b + 1].morphMinIndex = 0 /\ vertexBuffers[b + 1].morphMaxIndex = 0
            ELSE /\ vertexBuffers[b + 1].morphMinIndex = SetMin(RecordedIndexes(b))
                 /\ vertexBuffers[b + 1].morphMaxIndex = SetMax(RecordedIndexes(b))

\* The positions of the buffer vertices the indices of the first LOD of
\* geometry g refer to, one for every index
CornerPositions(g) ==
    [k \in 1..geometries[g].lodLevels[1].countIndex |->
        vertexBuffers[geometries[g].lodLevels[1].vertexBuffer + 1]
            .vertices[DrawnIndexes(geometries[g].lodLevels[1])[k] + 1].pos]

\* The vertices (0-based) the first LOD of geometry g draws
DrawnVertices(g) ==
    {DrawnIndexes(geometries[g].lodLevels[1])[k] :
        k \in 1..geometries[g].lodLevels[1].countIndex}

\* The positions of those vertices, each once, in index order
RECURSIVE PositionsOf(_, _)
PositionsOf(b, set) ==
    IF set = {} THEN << >>
    ELSE <<vertexBuffers[b + 1].vertices[SetMin(set) + 1].pos>>
         \o PositionsOf(b, set \ {SetMin(set)})

\* The mean of a list of positions; the zero vector for an empty list
Mean(points) ==
    IF points = << >> THEN ZeroVector
    ELSE [k \in 1..3 |-> Rat(VectorSum(points)[k], Len(points))]

Positioned(g) ==
    BitAnd(vertexBuffers[geometries[g].lodLevels[1].vertexBuffer + 1].elementMask,
           ELEMENT_POSITION) # 0

\* C22 as stated: the center of every geometry is the centroid of the
\* positions of the vertices of its first LOD, each vertex counted once.
CenterIsVertexCentroid ==
    (Exported /\ MaskErrorSources = {}) =>
        \A g \in 1..Len(geometries) :
            geometries[g].center =
                IF Positioned(g)
                THEN Mean(PositionsOf(geometries[g].lodLevels[1].vertexBuffer,
                                      DrawnVertices(g)))
                ELSE ZeroVector

\* C22 amended: when the source vertices of a buffer have the same elements,
\* the center of every geometry is the mean of the positions of the buffer
\* vertices that the indices of its first LOD refer to, every index counted,
\* and the zero vector when the first LOD draws no triangle or the buffer has
\* no position element.
CenterIsCornerMean ==
    (Exported /\ MaskErrorSources = {}) =>
        \A g \in 1..Len(geometries) :
            geometries[g].center =
                IF Positioned(g) THEN Mean(CornerPositions(g)) ELSE ZeroVector

\* C22 witness: a first LOD whose indices refer to one vertex more often than
\* to another, so that the center is not the centroid of its vertices
CenterWitness ==
    /\ Exported
    /\ MaskErrorSources = {}
    /\ \E g \in 1..Len(geometries) :
           /\ Positioned(g)
           /\ Cardinality(DrawnVertices(g)) = 2
           /\ geometries[g].center = Mean(CornerPositions(g))
           /\ geometries[g].center #
                  Mean(PositionsOf(geometries[g].lodLevels[1].vertexBuffer, DrawnVertices(g)))

\* C23: an index buffer with indexSize 2 holds no index value above the
\* largest 16-bit value, whatever vertices of the paired vertex buffer the
\* triangles leave unreferenced.
IndexValuesFitIndexSize ==
    Exported =>
        \A b \in 1..Len(indexBuffers) :
            indexBuffers[b].indexSize = 2 =>
                \A k \in 1..Len(indexBuffers[b].indexes) :
                    indexBuffers[b].indexes[k] <= MAX_INDEX16

\* C24: for every vertex buffer touched by a morph, the morphable vertex
\* count UrhoWriteModel writes after the range start is morphMaxIndex -
\* morphMinIndex + 1, so that the range [start, start + count) holds every
\* index from morphMinIndex to morphMaxIndex.
MorphCountSpansMorphRange ==
    Exported =>
        \A b \in 0..(Len(vertexBuffers) - 1) :
            RecordedIndexes(b) # {} =>
                /\ MorphRangeCount(vertexBuffers[b + 1]) =
                       vertexBuffers[b + 1].morphMaxIndex - vertexBuffers[b + 1].morphMinIndex + 1
                /\ \A i \in vertexBuffers[b + 1].morphMinIndex..vertexBuffers[b + 1].morphMaxIndex :
                       i < vertexBuffers[b + 1].morphMinIndex + MorphRangeCount(vertexBuffers[b + 1])

\* The places <<vertex buffer, vertex index>> (0-based) of the vertices the
\* index sets of geometry g (1-based) refer to
GeometryPlaces(g) ==
    UNION {UNION {{loc \in modelIndexMap[SourceLodOf(<<g, l>>).indexSet[k]] :
                      loc[1] = LodOf(<<g, l>>).vertexBuffer} :
                  k \in 1..Len(SourceLodOf(<<g, l>>).indexSet)} :
           l \in 1..Len(geometries[g].lodLevels)}

\* The weight tuples the vertex at a place was constructed with: those of the
\* first source vertex mapped to the place
ConstructedWeights(loc) ==
    VertexWeights(tData.verticesList[
        (CHOOSE t \in DOMAIN modelIndexMap :
            /\ loc \in modelIndexMap[t]
            /\ \A t2 \in DOMAIN modelIndexMap : loc \in modelIndexMap[t2] => t <= t2) + 1].weights)

\* The skeleton indices in the tuples of the vertices of the buffers geometry
\* g draws from
GeometryBones(g) ==
    UNION {{ConstructedWeights(loc)[i][1] : i \in 1..MAX_WEIGHTS} :
           loc \in {x \in UNION {modelIndexMap[t] : t \in DOMAIN modelIndexMap} :
                       \E y \in GeometryPlaces(g) : y[1] = x[1]}}

\* The tuples of positive weight stored at a place name, through the bone
\* map of geometry g, the skeleton bones the vertex was constructed with
RemappedOnce(g, loc) ==
    LET stored == vertexBuffers[loc[1] + 1].vertices[loc[2] + 1].weights
    IN  \A i \in 1..Len(stored) :
            RatLess(RatZero, stored[i][2]) =>
                /\ stored[i][1] < Len(geometries[g].boneMap)
                /\ geometries[g].boneMap[stored[i][1] + 1] = ConstructedWeights(loc)[i][1]

\* C25: after UrhoExport of a model with more than MAX_SKIN_MATRICES bones
\* (without mask errors), for every geometry with blend-weighted vertices
\* whose buffers use at most MAX_SKIN_MATRICES distinct bones, every stored
\* pair (localIndex, weight) of every vertex of the geometry has
\* boneMap[localIndex] equal to the skeleton index the vertex got from its
\* source vertex, with any number of LODs and with shared buffers.
StoredIndicesMapToSourceBones ==
    (Exported /\ errorsIndices = errorsDict.mask /\ Len(bones) > MAX_SKIN_MATRICES) =>
        \A g \in 1..Len(geometries) :
            (BlendGeometry(g) /\ Cardinality(GeometryBones(g)) <= MAX_SKIN_MATRICES) =>
                \A loc \in GeometryPlaces(g) : RemappedOnce(g, loc)

====
